---------------------------- MODULE Spec2Model ----------------------------
(***************************************************************************)
(* Verification model of the robot-analyzer solvers:                       *)
(*   - solveInverseKinematics        (src/src/utils/solvers.ts)            *)
(*   - solveInverseKinematicsSimple  (ray-casting workspace module)        *)
(*   - sampleMaxTorques              (src/src/utils/solvers.ts)            *)
(*   - sampleWorkspaceRayCasting     (ray-casting workspace module)        *)
(*   - computeConvexHull / quickHull3D (src/src/utils/solvers.ts)          *)
(*   - APIService                      (src/src/services/api.ts)           *)
(*   - Cache                           (src/src/utils/solvers.ts)          *)
(*   - debounce                        (debounce/throttle module)          *)
(*                                                                         *)
(* Numbers.  The code computes in IEEE-754 doubles.  The model computes in *)
(* fixed point: a length is an integer number of units of Tol/4, i.e.      *)
(* 2.5e-5 m, so that PINOCCHIO_TOLERANCE = 1e-4 is Tol = 4 units.  The     *)
(* non-finite doubles are kept: a number is a record [fin, v] that is      *)
(* either finite (v its value), NaN, +Infinity or -Infinity.               *)
(*                                                                         *)
(* The engine `pin` is a WebAssembly build of Pinocchio and is not part of *)
(* the repository.  It is modelled by a small family of robots for which   *)
(* forward kinematics and the Jacobian are exact in integers: chains of    *)
(* prismatic joints along the coordinate axes (and joints that do not move *)
(* the end effector).                                                      *)
(***************************************************************************)
EXTENDS Integers, Sequences, FiniteSets, TLC

-----------------------------------------------------------------------------
(* Bounds of the model *)

\* largest maxIterations a caller of the IK solvers passes
MaxIterations == 4

\* largest numRays a caller of the workspace sampler passes
MaxRays == 3

\* calls of loadWasmModel in one run
MaxLoads == 3

\* how far the clock runs, in ticks
MaxTime == 2

\* getOrSet calls that wait for their computeFn at one time
MaxPending == 2

\* largest wait a debounced wrapper is made with, in ticks
MaxWait == 2

\* how far the clock of the debounced wrapper runs, in ticks
MaxDebounceTime == 4

\* how far the clock of the throttled wrapper runs, in ticks
MaxThrottleTime == 8

\* how many times the wrapper made by throttleAsync or debounceAsync is
\* called
MaxStarts == 3

\* how far the clock of the animation runs, in ticks
MaxAnimTime == 3

\* how many animation frames are requested
MaxFrames == 5

-----------------------------------------------------------------------------
(* IEEE-754 numbers *)

Fin(n) == [fin |-> TRUE, v |-> n]
NaN == [fin |-> FALSE, v |-> 0]
PosInf == [fin |-> FALSE, v |-> 1]
NegInf == [fin |-> FALSE, v |-> -1]

IsNaN(x) == ~x.fin /\ x.v = 0
IsFinite(x) == x.fin

Abs(n) == IF n < 0 THEN -n ELSE n

\* a < b on doubles: every comparison with NaN is false
FLt(a, b) ==
    IF IsNaN(a) \/ IsNaN(b) THEN FALSE
    ELSE IF a.fin /\ b.fin THEN a.v < b.v
    ELSE (IF a.fin THEN 0 ELSE a.v) < (IF b.fin THEN 0 ELSE b.v)

\* a <= b on doubles
FLe(a, b) == ~IsNaN(a) /\ ~IsNaN(b) /\ (FLt(a, b) \/ a = b)

FNeg(a) == IF a.fin THEN Fin(-a.v) ELSE [fin |-> FALSE, v |-> -a.v]

FAdd(a, b) ==
    IF IsNaN(a) \/ IsNaN(b) THEN NaN
    ELSE IF a.fin /\ b.fin THEN Fin(a.v + b.v)
    ELSE IF a.fin THEN b
    ELSE IF b.fin THEN a
    ELSE IF a.v = b.v THEN a ELSE NaN

FSub(a, b) == FAdd(a, FNeg(b))

AllFinite(s) == \A k \in DOMAIN s : s[k].fin

\* floor of the square root, by bisection
RECURSIVE SqrtSearch(_, _, _)
SqrtSearch(n, lo, hi) ==
    IF hi - lo <= 1 THEN lo
    ELSE LET mid == (lo + hi) \div 2
         IN IF mid * mid <= n THEN SqrtSearch(n, mid, hi)
            ELSE SqrtSearch(n, lo, mid)

ISqrt(n) == SqrtSearch(n, 0, 46341)

\* Math.sqrt(e0*e0 + e1*e1 + e2*e2); large vectors are scaled before squaring
\* so that the squares fit the integers of the model checker
Norm3(e) ==
    IF \E k \in 1..3 : IsNaN(e[k]) THEN NaN
    ELSE IF \E k \in 1..3 : ~e[k].fin THEN PosInf
    ELSE LET m == Abs(e[1].v) + Abs(e[2].v) + Abs(e[3].v)
             s == m \div 10000 + 1
             sq(k) == (Abs(e[k].v) \div s) * (Abs(e[k].v) \div s)
         IN Fin(s * ISqrt(sq(1) + sq(2) + sq(3)))

\* a * b / c rounded to the nearest integer, c > 0, without forming a * b
MulDivRound(a, b, c) ==
    LET sgn == IF (a < 0) = (b < 0) THEN 1 ELSE -1
        x == Abs(a)
        y == Abs(b)
    IN sgn * ((x \div c) * y + ((x % c) * y + c \div 2) \div c)

-----------------------------------------------------------------------------
(* The engine: model, forward kinematics, Jacobian *)

\* PINOCCHIO_TOLERANCE = 1e-4, in units of 2.5e-5
Tol == 4

\* 1 / damp.  The code's damp is 1e-6; the 3x3 cofactor arithmetic below is
\* carried out in units of damp, and the model uses damp = 1/8 so that the
\* determinant fits the integers of the model checker.  The singularity
\* threshold of the simple solver, 1e-12 = damp^2, is scaled with it.
DampInv == 8

\* An optional joint limit of RobotInfo (lowerLimits[j] may be null/undefined)
Some(n) == [def |-> TRUE, v |-> n]
Null == [def |-> FALSE, v |-> 0]

\* Math.PI in the units of the joint coordinate (2.5e-5)
PI == 125664

\* A robot: for each joint the coordinate axis it slides along (1 = x, 2 = y,
\* 3 = z, 0 = the joint does not move the end effector), the end-effector
\* position at q = 0, and the joint limits of its RobotInfo.
Robot(axes, base, lo, hi) ==
    [axes |-> axes, base |-> base, lowerLimits |-> lo, upperLimits |-> hi]

Robots ==
    { Robot(<<1>>, <<0, 0, 0>>, <<Some(-8)>>, <<Some(8)>>),
      Robot(<<1, 2>>, <<4, 0, 0>>, <<Some(-8), Some(0)>>, <<Some(8), Some(16)>>),
      Robot(<<2, 2>>, <<0, 0, 4>>, <<Null, Some(-4)>>, <<Null, Some(4)>>),
      Robot(<<0>>, <<8, 0, 0>>, <<Some(0)>>, <<Some(8)>>) }

Nv(robot) == Len(robot.axes)

\* pin.forwardKinematics + pin.getJointPlacement(data, njoints - 1).translation
FKPos(robot, q) ==
    LET RECURSIVE Along(_, _)
        Along(k, c) ==
            IF c = 0 THEN Fin(robot.base[k])
            ELSE IF robot.axes[c] = k THEN FAdd(Along(k, c - 1), q[c])
            ELSE IF IsNaN(q[c]) THEN NaN
            ELSE Along(k, c - 1)
    IN [k \in 1..3 |-> Along(k, Nv(robot))]

\* pin.getJointJacobian(..., LOCAL_WORLD_ALIGNED): J[r][c] = J_flat[c * 6 + r]
Jac(robot) ==
    [r \in 1..3 |-> [c \in 1..Nv(robot) |-> IF robot.axes[c] = r THEN 1 ELSE 0]]

-----------------------------------------------------------------------------
(* Damped least squares step, shared by both IK solvers *)

\* JJT = J * J^T + damp * I, in units of damp
JJT(J, nv) ==
    LET RECURSIVE Sum(_, _, _)
        Sum(i, j, k) ==
            IF k = 0 THEN 0 ELSE Sum(i, j, k - 1) + J[i][k] * J[j][k]
    IN [i \in 1..3 |-> [j \in 1..3 |->
            DampInv * Sum(i, j, nv) + (IF i = j THEN 1 ELSE 0)]]

\* det of the 3x3 matrix, expanded along the first row as in the code
Det3(A) ==
      A[1][1] * (A[2][2] * A[3][3] - A[2][3] * A[3][2])
    - A[1][2] * (A[2][1] * A[3][3] - A[2][3] * A[3][1])
    + A[1][3] * (A[2][1] * A[3][2] - A[2][2] * A[3][1])

\* the numerators of JJT_inv (JJT_inv = Cofactors * invdet)
Cofactors(A) ==
    << << A[2][2] * A[3][3] - A[3][2] * A[2][3],
          A[1][3] * A[3][2] - A[1][2] * A[3][3],
          A[1][2] * A[2][3] - A[1][3] * A[2][2] >>,
       << A[2][3] * A[3][1] - A[2][1] * A[3][3],
          A[1][1] * A[3][3] - A[1][3] * A[3][1],
          A[2][1] * A[1][3] - A[1][1] * A[2][3] >>,
       << A[2][1] * A[3][2] - A[3][1] * A[2][2],
          A[3][1] * A[1][2] - A[1][1] * A[3][2],
          A[1][1] * A[2][2] - A[2][1] * A[1][2] >> >>

\* dq[c] * 0.5 for finite err:  dq = J^T * JJT_inv * err,  step size 0.5
HalfDq(J, A, err, c) ==
    LET C == Cofactors(A)
        det == Det3(A)
        coef(k) == DampInv * (J[1][c] * C[1][k] + J[2][c] * C[2][k] + J[3][c] * C[3][k])
    IN   MulDivRound(err[1].v, coef(1), 2 * det)
       + MulDivRound(err[2].v, coef(2), 2 * det)
       + MulDivRound(err[3].v, coef(3), 2 * det)

\* q[c] -= dq * 0.5 for every joint.  With a non-finite component in err
\* every invErr[i] has a term 0 * Infinity or x * NaN, so every dq is NaN.
UpdateQ(robot, q, err) ==
    LET J == Jac(robot)
        A == JJT(J, Nv(robot))
    IN [c \in 1..Nv(robot) |->
          IF AllFinite(err) /\ q[c].fin
          THEN Fin(q[c].v - HalfDq(J, A, err, c))
          ELSE NaN]

\* err = currentPos - targetPosition
ErrorVec(robot, q, target) ==
    LET pos == FKPos(robot, q)
    IN [k \in 1..3 |-> FSub(pos[k], target[k])]

\* Math.abs(det) < 1e-12, the singularity test of the simple solver
Singular(robot) == Abs(Det3(JJT(Jac(robot), Nv(robot)))) < DampInv


-----------------------------------------------------------------------------
(* One iteration of the loop body of each IK solver *)

\* solveInverseKinematics: measure the error, break when it is within the
\* tolerance, otherwise apply the damped least squares update to q.  There is
\* no test of det and no test of dq: the update is applied whatever it is.
FullStepLateCheck(robot, target, q) ==
    LET err == ErrorVec(robot, q, target)
        fe == Norm3(err)
    IN [final_error |-> fe,
        converged |-> FLt(fe, Fin(Tol)),
        brk |-> FLt(fe, Fin(Tol)),
        q |-> UpdateQ(robot, q, err)]

FullStepGuarded(robot, target, q) ==
    LET err == ErrorVec(robot, q, target)
        fe == Norm3(err)
        conv == FLt(fe, Fin(Tol))
    IN [final_error |-> fe,
        converged |-> conv,
        brk |-> conv \/ ~AllFinite(err),
        q |-> IF conv \/ ~AllFinite(err) THEN q ELSE UpdateQ(robot, q, err)]

FullStep(robot, target, q) ==
    LET err == ErrorVec(robot, q, target)
        fe == Norm3(err)
        conv == FLt(fe, Fin(Tol))
    IN [final_error |-> fe,
        converged |-> conv,
        brk |-> conv,
        q |-> IF conv THEN q ELSE UpdateQ(robot, q, err)]

\* solveInverseKinematicsSimple: return at once when within the tolerance,
\* break when |det| < 1e-12, otherwise apply the update.
SimpleStep(robot, target, q) ==
    LET err == ErrorVec(robot, q, target)
        fe == Norm3(err)
        conv == FLt(fe, Fin(Tol))
    IN [final_error |-> fe,
        converged |-> conv,
        brk |-> ~conv /\ Singular(robot),
        q |-> IF conv \/ Singular(robot) THEN q ELSE UpdateQ(robot, q, err)]

\* what solveInverseKinematicsSimple returns when its loop ends without a
\* converged iteration (line `return { converged: false, final_error: ... }`)
SimpleNotConverged == [converged |-> FALSE, final_error |-> PosInf]

\* the whole of solveInverseKinematicsSimple, as isReachable uses it
RECURSIVE SimpleSolve(_, _, _, _, _)
SimpleSolve(robot, target, q, iter, maxIterations) ==
    IF iter >= maxIterations THEN SimpleNotConverged
    ELSE LET s == SimpleStep(robot, target, q)
         IN IF s.converged THEN [converged |-> TRUE, final_error |-> s.final_error]
            ELSE IF s.brk THEN SimpleNotConverged
            ELSE SimpleSolve(robot, target, s.q, iter + 1, maxIterations)

-----------------------------------------------------------------------------
(* sampleMaxTorques: pure parts *)

\* Joint angles of the torque sampler are in ticks of pi/20, so that the
\* tenth of a joint range and its quarters are whole numbers for the ranges
\* used below.
PiTicks == 20

\* gridSamples
GridSamples == 300

\* the number of strata of the grid phase (gridSamples / 10, step = range / 10)
Strata == 10

\* length of the `extremes` array
NumPatterns == 12

\* the values Math.random() takes in the model, in quarters: 0, 1/4, 1/2, 3/4
RandQuarters == {0, 1, 2, 3}

\* The torque model of a robot: kinds[j] says how the torque of joint j
\* depends on q[j].  "lin": proportional to q[j] (the mock engine of the
\* repository's test); "peak": largest at q[j] = 13, falling off on both
\* sides, as the gravity torque of a link about its horizontal pose.
TqRobot(kinds, lo, hi) == [kinds |-> kinds, lowerLimits |-> lo, upperLimits |-> hi]

TqRobots ==
    { TqRobot(<<"peak">>, <<Some(0)>>, <<Some(40)>>),
      TqRobot(<<"lin">>, <<Null>>, <<Null>>),
      TqRobot(<<"lin", "peak">>, <<Some(-40), Some(0)>>, <<Some(0), Some(40)>>) }

\* pin.rnea(model, data, q, v, a): a function of its arguments alone
Rnea(robot, q, v, a) ==
    [j \in 1..Len(robot.kinds) |->
        (IF robot.kinds[j] = "lin" THEN q[j] \div 4
         ELSE 8 - Abs(q[j] - 13) \div 3) + v[j] + a[j]]

\* lowerLimits[j] !== undefined && !== null ? lowerLimits[j] : -Math.PI
LowerOf(robot, j) ==
    IF robot.lowerLimits[j].def THEN robot.lowerLimits[j].v ELSE -PiTicks

UpperOf(robot, j) ==
    IF robot.upperLimits[j].def THEN robot.upperLimits[j].v ELSE PiTicks

\* velocity / acceleration: an array is copied, a single number is broadcast
Broadcast(x, nv) == [i \in 1..nv |-> x]

\* evaluateTorque(q): returns the new << max_torques, maxTorqueConfig >>
EvaluateTorque(robot, q, v, a, maxT, cfg) ==
    LET tau == Rnea(robot, q, v, a)
        n == Len(q)
        improved == \E j \in 1..n : Abs(tau[j]) > maxT[j]
    IN << [j \in 1..n |-> IF Abs(tau[j]) > maxT[j] THEN Abs(tau[j]) ELSE maxT[j]],
          IF improved THEN q ELSE cfg >>

\* Math.pow(2, Math.min(numJoints, 6))
NumCorners(numJoints) == 2 ^ (IF numJoints < 6 THEN numJoints ELSE 6)

\* Phase 1: corner `mask` of the joint-limit box; joint j (from 0) takes its
\* upper limit when j < 6 and bit j of mask is set
CornerSample(robot, mask) ==
    [j \in 1..Len(robot.kinds) |->
        IF j - 1 < 6 /\ (mask \div (2 ^ (j - 1))) % 2 = 1
        THEN UpperOf(robot, j) ELSE LowerOf(robot, j)]

\* Phase 2: sample i of the grid; rnd[j] is Math.random() for joint j in
\* quarters:  lower + interval * step + (Math.random() - 0.5) * step
GridSample(robot, i, rnd) ==
    [j \in 1..Len(robot.kinds) |->
        LET lower == LowerOf(robot, j)
            step == (UpperOf(robot, j) - lower) \div Strata
            interval == i \div (GridSamples \div Strata)
        IN lower + interval * step + ((rnd[j] - 2) * step) \div 4]

\* Phase 3: pattern p (from 0) of `extremes`; joint index j0 is from 0
PatternSample(robot, p) ==
    [j \in 1..Len(robot.kinds) |->
        LET lower == LowerOf(robot, j)
            upper == UpperOf(robot, j)
            range == upper - lower
            j0 == j - 1
        IN CASE p = 0 -> lower
             [] p = 1 -> upper
             [] p = 2 -> IF j0 % 2 = 0 THEN lower ELSE upper
             [] p = 3 -> IF j0 % 2 = 0 THEN upper ELSE lower
             [] p = 4 -> lower + range \div 4
             [] p = 5 -> lower + range \div 2
             [] p = 6 -> lower + (3 * range) \div 4
             [] p = 7 -> IF j0 % 2 = 0 THEN lower + range \div 4
                                       ELSE lower + (3 * range) \div 4
             [] p = 8 -> IF j0 % 2 = 0 THEN lower + (3 * range) \div 4
                                       ELSE lower + range \div 4
             [] p = 9 -> lower + range * (IF j0 % 3 = 0 THEN 1 ELSE 0)
             [] p = 10 -> lower + range * (IF j0 % 3 = 1 THEN 1 ELSE 0)
             [] OTHER -> lower + range * (IF j0 % 3 = 2 THEN 1 ELSE 0)]

-----------------------------------------------------------------------------
(* sampleWorkspaceRayCasting: pure parts *)

\* components of a unit direction are in thousandths
DirScale == 1000

\* cos(phi * i) and sin(phi * i) for the golden angle phi = pi * (3 - sqrt 5),
\* i = 0, 1, 2, ..., in thousandths
GoldenCos == << 1000, -737, 87, 608, -985, 844 >>
GoldenSin == << 0, 675, -996, 794, -174, -537 >>

\* Math.max(maxReach * 0.5, 2.0): the 2.0 m in units of 2.5e-5 m
MinReach == 80000

\* maxTests of the doubling phase of binarySearchBoundary
MaxTests == 10

\* maxIterations of the bisection loop of binarySearchBoundary
MaxBisections == 50

\* generateSphericalRays(numRays)[i], i from 0.  For numRays = 1 the code
\* divides 0 by 0: y, radius and with them x and z are NaN.
SphericalRay(numRays, i) ==
    IF numRays - 1 = 0 THEN << NaN, NaN, NaN >>
    ELSE LET y == DirScale - (2 * DirScale * i) \div (numRays - 1)
             radius == ISqrt(DirScale * DirScale - y * y)
         IN << Fin(MulDivRound(GoldenCos[i + 1], radius, DirScale)),
               Fin(y),
               Fin(MulDivRound(GoldenSin[i + 1], radius, DirScale)) >>

GenerateSphericalRays(numRays) == [i \in 1..numRays |-> SphericalRay(numRays, i - 1)]

\* lowerLimits[j] ?? -Math.PI and upperLimits[j] ?? Math.PI
LowerOr(robot, j) ==
    IF robot.lowerLimits[j].def THEN robot.lowerLimits[j].v ELSE -PI

UpperOr(robot, j) ==
    IF robot.upperLimits[j].def THEN robot.upperLimits[j].v ELSE PI

\* the neutral configuration: the midpoint of the joint limits
MidConfig(robot) ==
    [j \in 1..Nv(robot) |-> Fin((LowerOr(robot, j) + UpperOr(robot, j)) \div 2)]

\* findWorkspaceOrigin
FindWorkspaceOrigin(robot) == FKPos(robot, MidConfig(robot))

\* estimateMaxReach
EstimateMaxReach(robot) ==
    LET RECURSIVE Reach(_)
        Reach(j) ==
            IF j = 0 THEN 0
            ELSE Reach(j - 1) + Abs(UpperOr(robot, j) - LowerOr(robot, j))
        half == Reach(Nv(robot)) \div 2
    IN IF half > MinReach THEN half ELSE MinReach

\* origin[k] + direction[k] * r
PointAt(origin, direction, r) ==
    [k \in 1..3 |->
        IF direction[k].fin
        THEN FAdd(origin[k], Fin(MulDivRound(r, direction[k].v, DirScale)))
        ELSE NaN]

\* isReachable: the simple IK solver from the neutral configuration
IsReachable(robot, targetPos, maxIterations) ==
    SimpleSolve(robot, targetPos, MidConfig(robot), 0, maxIterations).converged

\* the doubling loop of binarySearchBoundary: the value of `high` after it
RECURSIVE ExpandHigh(_, _, _, _, _, _)
ExpandHigh(robot, origin, direction, testHigh, maxTests, maxIK) ==
    IF maxTests = 0 THEN testHigh
    ELSE IF ~IsReachable(robot, PointAt(origin, direction, testHigh), maxIK)
    THEN testHigh
    ELSE ExpandHigh(robot, origin, direction, 2 * testHigh, maxTests - 1, maxIK)

\* the bisection loop of binarySearchBoundary: the value of `low` after it
RECURSIVE Bisect(_, _, _, _, _, _, _, _)
Bisect(robot, origin, direction, low, high, epsilon, iterations, maxIK) ==
    IF ~(high - low > epsilon /\ iterations < MaxBisections) THEN low
    ELSE LET mid == (low + high) \div 2
         IN IF IsReachable(robot, PointAt(origin, direction, mid), maxIK)
            THEN Bisect(robot, origin, direction, mid, high, epsilon,
                        iterations + 1, maxIK)
            ELSE Bisect(robot, origin, direction, low, mid, epsilon,
                        iterations + 1, maxIK)

\* a boundary point, or null
NullPoint == [null |-> TRUE, p |-> << >>]
APoint(p) == [null |-> FALSE, p |-> p]

\* the search without the test of the origin
BinarySearchBoundaryUntested(robot, origin, direction, rMin, rMax, epsilon, maxIK) ==
    LET high == ExpandHigh(robot, origin, direction, rMax, MaxTests, maxIK)
        low == Bisect(robot, origin, direction, rMin, high, epsilon, 0, maxIK)
    IN APoint(PointAt(origin, direction, low))

\* binarySearchBoundary(origin, direction, R_min, R_max, epsilon, ...)
BinarySearchBoundary(robot, origin, direction, rMin, rMax, epsilon, maxIK) ==
    IF ~IsReachable(robot, origin, maxIK) THEN NullPoint
    ELSE LET high == ExpandHigh(robot, origin, direction, rMax, MaxTests, maxIK)
             low == Bisect(robot, origin, direction, rMin, high, epsilon, 0, maxIK)
         IN APoint(PointAt(origin, direction, low))

\* if (p[k] < min[k]) min[k] = p[k], for the three coordinates
BoxMin(min, p) == [k \in 1..3 |-> IF FLt(p[k], min[k]) THEN p[k] ELSE min[k]]

\* if (p[k] > max[k]) max[k] = p[k], for the three coordinates
BoxMax(max, p) == [k \in 1..3 |-> IF FLt(max[k], p[k]) THEN p[k] ELSE max[k]]

\* raysProcessed / rays.length, in thousandths; 0 / 0 is NaN
SuccessRate(raysProcessed, numRays) ==
    IF numRays = 0 THEN NaN ELSE Fin((raysProcessed * 1000) \div numRays)

-----------------------------------------------------------------------------
(* computeConvexHull / quickHull3D: pure parts *)

\* Points of the hull input have integer coordinates.  A face keeps the
\* cross product of its edges as its normal, where the code keeps that
\* vector scaled to unit length (vec3Normalize): the sign of every signed
\* distance is the same, a signed distance of the model is the code's times
\* the length of the normal, and distances to different faces are compared
\* after cross-multiplying with the squared lengths (DistGreater).  The
\* thresholds 1e-9 lie strictly between 0 and the least positive distance
\* such points have.
Vec3Sub(a, b) == << a[1] - b[1], a[2] - b[2], a[3] - b[3] >>

Vec3Add(a, b) == << a[1] + b[1], a[2] + b[2], a[3] + b[3] >>

Vec3Scale(v, s) == << v[1] * s, v[2] * s, v[3] * s >>

Vec3Dot(a, b) == a[1] * b[1] + a[2] * b[2] + a[3] * b[3]

Vec3Cross(a, b) ==
    << a[2] * b[3] - a[3] * b[2],
       a[3] * b[1] - a[1] * b[3],
       a[1] * b[2] - a[2] * b[1] >>

\* points[i] for the code's index i, which counts from 0
PointOf(points, i) == points[i + 1]

\* new HullFace(vertices, points): computePlane, no points assigned
HullFace(vertices, points) ==
    LET p0 == PointOf(points, vertices[1])
        normal == Vec3Cross(Vec3Sub(PointOf(points, vertices[2]), p0),
                            Vec3Sub(PointOf(points, vertices[3]), p0))
    IN [vertices |-> vertices, normal |-> normal,
        constant |-> Vec3Dot(normal, p0), points |-> << >>]

\* HullFace.computeCentroid, times 3
ComputeCentroid(face, points) ==
    Vec3Add(Vec3Add(PointOf(points, face.vertices[1]),
                    PointOf(points, face.vertices[2])),
            PointOf(points, face.vertices[3]))

\* HullFace.signedDistance, times the length of the normal
SignedDistance(face, idx, points) ==
    Vec3Dot(face.normal, PointOf(points, idx)) - face.constant

\* HullFace.isOutside: signedDistance > 1e-9
IsOutside(face, idx, points) == SignedDistance(face, idx, points) > 0

\* HullFace.addPoint: the points of a face are a Set, kept in insertion order
AddPoint(face, idx) ==
    IF \E k \in 1..Len(face.points) : face.points[k] = idx THEN face
    ELSE [face EXCEPT !.points = Append(@, idx)]

\* HullFace.hasVertex
HasVertex(face, v) ==
    face.vertices[1] = v \/ face.vertices[2] = v \/ face.vertices[3] = v

\* HullFace.flip
Flip(face) ==
    [face EXCEPT !.vertices = << @[2], @[1], @[3] >>,
                 !.normal = Vec3Scale(@, -1),
                 !.constant = -@]

\* HullFace.getFurthestPoint: the first point of the face at the largest
\* positive distance; idx = -1, dist = 0 when there is none
RECURSIVE FurthestFrom(_, _, _, _)
FurthestFrom(face, points, k, best) ==
    IF k > Len(face.points) THEN best
    ELSE LET d == SignedDistance(face, face.points[k], points)
         IN FurthestFrom(face, points, k + 1,
                IF d > best.dist THEN [idx |-> face.points[k], dist |-> d]
                ELSE best)

GetFurthestPoint(face, points) ==
    FurthestFrom(face, points, 1, [idx |-> -1, dist |-> 0])

\* dist > bestDist for distances to two faces: d / |n| > bd / |bn|, where
\* nn and bnn are the squared lengths of the normals and d, bd >= 0
DistGreater(d, nn, bd, bnn) == d * d * bnn > bd * bd * nn

\* sharesEdge(a, b)
SharesEdge(a, b) ==
    Cardinality({ k \in 1..3 : \E m \in 1..3 : b.vertices[k] = a.vertices[m] }) = 2

\* the index (from 0) of the first point with the least / greatest
\* coordinate k: the loop of quickHull3D replaces an index only on < or >
MinIdx(points, k) ==
    CHOOSE i \in 0..(Len(points) - 1) :
        /\ \A m \in 0..(Len(points) - 1) : points[i + 1][k] <= points[m + 1][k]
        /\ \A m \in 0..(i - 1) : points[m + 1][k] > points[i + 1][k]

MaxIdx(points, k) ==
    CHOOSE i \in 0..(Len(points) - 1) :
        /\ \A m \in 0..(Len(points) - 1) : points[i + 1][k] >= points[m + 1][k]
        /\ \A m \in 0..(i - 1) : points[m + 1][k] < points[i + 1][k]

\* Array.from(new Set(s)): the first occurrences, in order
RECURSIVE Unique(_)
Unique(s) ==
    IF s = << >> THEN << >>
    ELSE LET front == Unique(SubSeq(s, 1, Len(s) - 1))
             last == s[Len(s)]
         IN IF \E k \in 1..Len(front) : front[k] = last THEN front
            ELSE Append(front, last)

\* uniqueExtremes of quickHull3D
UniqueExtremes(points) ==
    Unique(<< MinIdx(points, 1), MaxIdx(points, 1), MinIdx(points, 2),
              MaxIdx(points, 2), MinIdx(points, 3), MaxIdx(points, 3) >>)

\* the four faces of the initial tetrahedron, as constructed
TetraFaces(points, ii) ==
    << HullFace(<< ii[1], ii[2], ii[3] >>, points),
       HullFace(<< ii[1], ii[3], ii[4] >>, points),
       HullFace(<< ii[1], ii[4], ii[2] >>, points),
       HullFace(<< ii[2], ii[4], ii[3] >>, points) >>

\* "Ensure consistent orientation": face i of faces 1..3 (from 0) is flipped
\* when dot(toRef, normal) > 0, toRef pointing from its centroid to the
\* centroid of face 0; face 0 is left as built.  When the exact value of the
\* dot product is 0 its sign in the code is the sign of a rounding error of
\* the centroids' division by 3: either outcome is taken.
Orientations(face, ref, points) ==
    LET d == Vec3Dot(Vec3Sub(ref, ComputeCentroid(face, points)), face.normal)
    IN IF d > 0 THEN { Flip(face) }
       ELSE IF d < 0 THEN { face }
       ELSE { face, Flip(face) }

OrientFaces(faces, points) ==
    LET ref == ComputeCentroid(faces[1], points)
    IN { << faces[1], a, b, c >> :
            a \in Orientations(faces[2], ref, points),
            b \in Orientations(faces[3], ref, points),
            c \in Orientations(faces[4], ref, points) }

\* a loop over the faces without its `break`: every face the point is
\* outside of gets it
RECURSIVE AddToEvery(_, _, _, _, _)
AddToEvery(faces, points, pt, mustHave, k) ==
    IF k > Len(faces) THEN faces
    ELSE AddToEvery(
            IF (mustHave = -1 \/ HasVertex(faces[k], mustHave))
               /\ IsOutside(faces[k], pt, points)
            THEN [faces EXCEPT ![k] = AddPoint(@, pt)] ELSE faces,
            points, pt, mustHave, k + 1)

\* the first face, in list order, for which `ok` holds gets point pt
RECURSIVE AddToFirst(_, _, _, _, _)
AddToFirst(faces, points, pt, mustHave, k) ==
    IF k > Len(faces) THEN faces
    ELSE IF (mustHave = -1 \/ HasVertex(faces[k], mustHave))
            /\ IsOutside(faces[k], pt, points)
         THEN [faces EXCEPT ![k] = AddPoint(@, pt)]
         ELSE AddToFirst(faces, points, pt, mustHave, k + 1)

\* "Assign points to faces": every point but the initial four goes to the
\* first face it is outside of
RECURSIVE AssignPoints(_, _, _, _)
AssignPoints(faces, points, initialIndices, i) ==
    IF i >= Len(points) THEN faces
    ELSE AssignPoints(
            IF \E k \in 1..Len(initialIndices) : initialIndices[k] = i THEN faces
            ELSE AddToFirst(faces, points, i, -1, 1),
            points, initialIndices, i + 1)

\* Vec3Dot(n, n)
SquaredLength(n) == Vec3Dot(n, n)

\* "Find face with furthest point": the pairs of a face (its position in
\* the list) and one of its points at the largest positive distance over
\* all faces.  The code takes the first face and point whose computed
\* distance is strictly larger than those before it; between distances
\* that are equal the rounding of the unit normals decides, so every pair
\* at the largest distance may be the one taken.  No pair: bestFace = null.
BestCandidates(faces, points) ==
    LET all == UNION { { [face |-> f, point |-> faces[f].points[k],
                          dist |-> SignedDistance(faces[f], faces[f].points[k], points),
                          nn |-> SquaredLength(faces[f].normal)] :
                            k \in 1..Len(faces[f].points) } : f \in 1..Len(faces) }
        pos == { c \in all : c.dist > 0 }
    IN { c \in pos : \A o \in pos : ~DistGreater(o.dist, o.nn, c.dist, c.nn) }

\* "Find visible faces from this point": the depth-first search from
\* bestFace; faces are named by their position in the list
RECURSIVE Visit(_, _, _, _, _, _)
Visit(faces, points, bestPoint, stack, seen, visible) ==
    IF stack = << >> THEN visible
    ELSE LET f == stack[Len(stack)]
             rest == SubSeq(stack, 1, Len(stack) - 1)
         IN IF f \in seen THEN Visit(faces, points, bestPoint, rest, seen, visible)
            ELSE IF IsOutside(faces[f], bestPoint, points)
                 THEN Visit(faces, points, bestPoint,
                            rest \o SelectSeq([o \in 1..Len(faces) |-> o],
                                        LAMBDA o : /\ o # f
                                                   /\ o \notin seen
                                                   /\ SharesEdge(faces[f], faces[o])),
                            seen \cup {f}, Append(visible, f))
                 ELSE Visit(faces, points, bestPoint, rest, seen \cup {f}, visible)

VisibleFaces(faces, points, bestFace, bestPoint) ==
    Visit(faces, points, bestPoint, << bestFace >>, {}, << >>)

\* the three edges of a face, in winding order
EdgesOf(face) ==
    << << face.vertices[1], face.vertices[2] >>,
       << face.vertices[2], face.vertices[3] >>,
       << face.vertices[3], face.vertices[1] >> >>

\* edgeCount of findHorizonEdges2 after the edge e: an edge whose key is
\* present is deleted, any other is set; a Map keeps insertion order
ToggleEdge(map, e) ==
    IF \E k \in 1..Len(map) : {map[k][1], map[k][2]} = {e[1], e[2]}
    THEN SelectSeq(map, LAMBDA x : {x[1], x[2]} # {e[1], e[2]})
    ELSE Append(map, e)

RECURSIVE ToggleFaces(_, _, _, _)
ToggleFaces(faces, visible, k, map) ==
    IF k > Len(visible) THEN map
    ELSE LET es == EdgesOf(faces[visible[k]])
         IN ToggleFaces(faces, visible, k + 1,
                ToggleEdge(ToggleEdge(ToggleEdge(map, es[1]), es[2]), es[3]))

\* findHorizonEdges2(visibleFaces, faces)
FindHorizonEdges2(faces, visible) == ToggleFaces(faces, visible, 1, << >>)

\* the points of the visible faces, face by face
RECURSIVE PointsOfFaces(_, _, _)
PointsOfFaces(faces, visible, k) ==
    IF k > Len(visible) THEN << >>
    ELSE faces[visible[k]].points \o PointsOfFaces(faces, visible, k + 1)

\* "Reassign points from removed faces"
RECURSIVE Reassign(_, _, _, _, _)
Reassign(faces, points, pts, bestPoint, k) ==
    IF k > Len(pts) THEN faces
    ELSE Reassign(AddToFirst(faces, points, pts[k], bestPoint, 1),
                  points, pts, bestPoint, k + 1)

\* One pass through the body of the expansion loop with `best` the face and
\* point found: the new list of faces
ExpandStep(faces, points, best) ==
    LET visible == VisibleFaces(faces, points, best.face, best.point)
        horizon == FindHorizonEdges2(faces, visible)
        kept == SelectSeq([o \in 1..Len(faces) |-> o],
                    LAMBDA o : \A k \in 1..Len(visible) : visible[k] # o)
        new == [k \in 1..Len(kept) |-> faces[kept[k]]]
               \o [k \in 1..Len(horizon) |->
                     HullFace(<< horizon[k][1], horizon[k][2], best.point >>,
                              points)]
    IN IF visible = << >>
       THEN [faces EXCEPT ![best.face].points = << >>]
       ELSE Reassign(new, points, PointsOfFaces(faces, visible, 1),
                     best.point, 1)

\* the elements of a set of numbers in increasing order
RECURSIVE Sorted(_)
Sorted(set) ==
    IF set = {} THEN << >>
    ELSE LET least == CHOOSE x \in set : \A y \in set : x <= y
         IN << least >> \o Sorted(set \ {least})

\* the position (from 0) of v in the list s
IndexIn(s, v) == (CHOOSE k \in 1..Len(s) : s[k] = v) - 1

\* a list of triples as the flat list of their components
Flat(triples) ==
    [k \in 1..(3 * Len(triples)) |-> triples[((k - 1) \div 3) + 1][((k - 1) % 3) + 1]]

\* the least / greatest of the k-th coordinates (Math.min / Math.max folds)
MinCoord(points, k) ==
    CHOOSE x \in { points[i][k] : i \in 1..Len(points) } :
        \A i \in 1..Len(points) : x <= points[i][k]

MaxCoord(points, k) ==
    CHOOSE x \in { points[i][k] : i \in 1..Len(points) } :
        \A i \in 1..Len(points) : x >= points[i][k]

\* the `faces` literal of boundingBoxFallback
BoxFaces ==
    << 0, 2, 1,  0, 3, 2,   4, 5, 6,  4, 6, 7,   0, 1, 5,  0, 5, 4,
       2, 3, 7,  2, 7, 6,   3, 0, 4,  3, 4, 7,   1, 2, 6,  1, 6, 5 >>

\* boundingBoxFallback(points)
BoundingBoxFallback(points) ==
    LET minX == MinCoord(points, 1)  maxX == MaxCoord(points, 1)
        minY == MinCoord(points, 2)  maxY == MaxCoord(points, 2)
        minZ == MinCoord(points, 3)  maxZ == MaxCoord(points, 3)
    IN [vertices |-> << minX, minY, minZ,  maxX, minY, minZ,
                        maxX, maxY, minZ,  minX, maxY, minZ,
                        minX, minY, maxZ,  maxX, minY, maxZ,
                        maxX, maxY, maxZ,  minX, maxY, maxZ >>,
        faces |-> BoxFaces]

\* the extraction without its fallbacks: the mesh of the faces as they are
ExtractResultUnchecked(faces, points) ==
    LET vertexList ==
            Sorted({ faces[f].vertices[k] : f \in 1..Len(faces), k \in 1..3 })
    IN [vertices |->
            Flat([i \in 1..Len(vertexList) |-> PointOf(points, vertexList[i])]),
        faces |->
            Flat([f \in 1..Len(faces) |->
                    [k \in 1..3 |-> IndexIn(vertexList, faces[f].vertices[k])]])]

\* "Extract result" of quickHull3D
ExtractResult(faces, points) ==
    IF Len(faces) = 0 THEN BoundingBoxFallback(points)
    ELSE LET vertexList ==
                 Sorted({ faces[f].vertices[k] : f \in 1..Len(faces), k \in 1..3 })
             vertices ==
                 Flat([i \in 1..Len(vertexList) |-> PointOf(points, vertexList[i])])
             resultFaces ==
                 Flat([f \in 1..Len(faces) |->
                         [k \in 1..3 |-> IndexIn(vertexList, faces[f].vertices[k])]])
         IN IF Len(vertices) < 12 \/ Len(resultFaces) < 4
            THEN BoundingBoxFallback(points)
            ELSE [vertices |-> vertices, faces |-> resultFaces]

\* quickHull3D up to the expansion loop, when 4 of the extreme indices are
\* distinct: the oriented tetrahedron with the other points assigned
InitialHulls(points) ==
    LET ii == SubSeq(UniqueExtremes(points), 1, 4)
    IN { AssignPoints(fs, points, ii, 0) :
            fs \in OrientFaces(TetraFaces(points, ii), points) }

-----------------------------------------------------------------------------
(* APIService: pure parts *)

\* the value null of a field that holds an object
NullRef == "null"

\* the engines and the models a session can hand to loadWasmModel
Pins == { "pinA", "pinB" }

Models == { "modelA", "modelB" }

\* the value of the field data before the first load
NullData == [model |-> NullRef, serial |-> 0]

\* new pin.Data(model): a new object, the n-th one constructed
NewData(model, n) == [model |-> model, serial |-> n]

\* the fields of the service after loadWasmModel, were data constructed
\* only when the field is still empty
LoadedServiceLazy(old, pin, model, n) ==
    [pin |-> pin, model |-> model,
     data |-> IF old.data = NullData THEN NewData(model, n) ELSE old.data]

\* the fields of the service after loadWasmModel(pin, model)
LoadedService(old, pin, model, n) ==
    [pin |-> pin, model |-> model, data |-> NewData(model, n)]

Methods ==
    { "computeTorques", "computeForwardDynamics", "computeEnergy",
      "computeMaxTorques", "computeWorkspace", "computeWorkspaceWithBoundary",
      "computeForwardKinematics", "computeJacobian", "computeMassMatrix",
      "computeCenterOfMass", "computeInverseKinematics" }

\* the methods that read robotInfo from the session store
NeedsRobotInfo ==
    { "computeMaxTorques", "computeWorkspace", "computeWorkspaceWithBoundary" }

\* !this.pin || !this.model || !this.data
NotInitialized(service) ==
    service.pin = NullRef \/ service.model = NullRef \/ service.data = NullData

\* how a compute method ends: by one of its two errors, or in the engine
ComputeOutcome(method, service, robotInfo) ==
    IF NotInitialized(service) THEN "WASM not initialized"
    ELSE IF method \in NeedsRobotInfo /\ ~robotInfo
         THEN "Robot info not available"
         ELSE "engine"

-----------------------------------------------------------------------------
(* Cache: pure parts *)

\* the keys and the values the callers store
CacheKeys == { "a", "b", "c" }

CacheData == { "x", "y" }

\* the maxSize and the defaultTTL (in ticks) a Cache is constructed with
CacheSizes == 1..2

DefaultTtls == { 1 }

\* the ttl argument of set and getOrSet: absent, or a number of ticks
TtlArgs == { Null, Some(0), Some(1) }

\* the keys of the Map, which is kept as the sequence of its entries in
\* insertion order
KeysOf(cache) == { cache[i].key : i \in 1..Len(cache) }

\* Map.get: the entry of the key (the key is present)
EntryOf(cache, key) ==
    cache[CHOOSE i \in 1..Len(cache) : cache[i].key = key]

\* Map.delete
MapDelete(cache, key) == SelectSeq(cache, LAMBDA e : e.key # key)

\* Map.set: a present key keeps its place, a new key goes last
MapSet(cache, entry) ==
    IF entry.key \in KeysOf(cache)
    THEN [i \in 1..Len(cache) |->
             IF cache[i].key = entry.key THEN entry ELSE cache[i]]
    ELSE Append(cache, entry)

\* an entry that expired as soon as its ttl was reached
IsExpiredAtTtl(now, entry) == now - entry.timestamp >= entry.ttl

\* Date.now() - entry.timestamp > entry.ttl
IsExpired(now, entry) == now - entry.timestamp > entry.ttl

\* get(key): what it returns and the Map it leaves
CacheGet(cache, key, now) ==
    IF key \notin KeysOf(cache)
    THEN [result |-> NullRef, cache |-> cache]
    ELSE IF IsExpired(now, EntryOf(cache, key))
         THEN [result |-> NullRef, cache |-> MapDelete(cache, key)]
         ELSE [result |-> EntryOf(cache, key).data, cache |-> cache]

\* a set that makes room only once the Map holds more than maxSize entries
EvictWhenOver(cache, maxSize) ==
    IF Len(cache) > maxSize /\ Len(cache) > 0
    THEN MapDelete(cache, cache[1].key)
    ELSE cache

\* the first half of set: the oldest key of the Map goes when it is full
Evict(cache, maxSize) ==
    IF Len(cache) >= maxSize /\ Len(cache) > 0
    THEN MapDelete(cache, cache[1].key)
    ELSE cache

\* set(key, data, ttl): the Map it leaves
CacheSet(cache, key, data, ttl, now, maxSize, defaultTTL) ==
    MapSet(Evict(cache, maxSize),
           [key |-> key, data |-> data, timestamp |-> now,
            ttl |-> IF ttl.def THEN ttl.v ELSE defaultTTL])

\* size()
CacheSize(cache) == Len(cache)

-----------------------------------------------------------------------------
(* debounce: pure parts *)

\* the arguments the wrapper is called with
DebounceArgs == { "p", "q" }

\* timeout === null
NoTimer == [set |-> FALSE, due |-> 0, args |-> NullRef]

\* a wrapper that leaves a pending timer in place
DebounceCallKeepTimer(timeout, args, now, wait) ==
    IF timeout.set THEN timeout
    ELSE [set |-> TRUE, due |-> now + wait, args |-> args]

\* one call of the wrapper: clearTimeout, then setTimeout(..., wait) with
\* the arguments of this call in the closure
DebounceCall(timeout, args, now, wait) ==
    [set |-> TRUE, due |-> now + wait, args |-> args]

\* setTimeout runs its callback no earlier than the delay asked for
TimerDue(timeout, now) == timeout.set /\ now >= timeout.due

-----------------------------------------------------------------------------
(* throttle: pure parts *)

\* a wrapper that asks for no delay
RemainingNone(wait, now, previous) == 0

\* remaining = wait - (now - previous)
Remaining(wait, now, previous) == wait - (now - previous)

\* setTimeout(callback, delay): a delay below zero counts as zero
TimerAfter(now, delay, args) ==
    [set |-> TRUE, due |-> IF delay > 0 THEN now + delay ELSE now,
     args |-> args]

\* one call of the throttled wrapper: what becomes of timeout and previous,
\* and whether func is invoked in the call itself
ThrottleCall(timeout, previous, args, now, wait) ==
    LET remaining == Remaining(wait, now, previous)
    IN IF remaining <= 0 /\ timeout.set
       THEN [timeout |-> NoTimer, previous |-> now, invoke |-> TRUE]
       ELSE IF ~timeout.set
            THEN [timeout |-> TimerAfter(now, remaining, args),
                  previous |-> previous, invoke |-> FALSE]
            ELSE [timeout |-> timeout, previous |-> previous,
                  invoke |-> FALSE]

-----------------------------------------------------------------------------
(* useSessionStore: pure parts *)

\* a field of computedData or workspaceData that is not there
Absent == "absent"

\* the sessions and the robots the application stores
SessionIds == { "session-1", "session-2" }

RobotInfos ==
    { [name |-> "A", dof |-> 1, neutralConfig |-> Some(<<0>>)],
      [name |-> "B", dof |-> 2, neutralConfig |-> Null] }

NoRobotInfo == [name |-> NullRef, dof |-> 0, neutralConfig |-> Null]

\* the joint vectors the application stores
JointVectors == { << >>, <<0>>, <<1>>, <<0, 0>> }

\* the workspaceData of a new store, and of clearWorkspaceData
InitialWorkspaceData ==
    [points |-> Absent, lastComputed |-> Absent, showWorkspace |-> TRUE,
     workspaceColor |-> "#60a5fa", workspacePointSize |-> "0.08"]

\* computedData: {}
NoComputedData ==
    [torques |-> Absent, energy |-> Absent, lastComputed |-> Absent]

\* the state of a new store
InitialStore ==
    [sessionId |-> NullRef, robotInfo |-> NoRobotInfo, jointPositions |-> << >>,
     jointVelocities |-> << >>, isAnimating |-> FALSE,
     computedData |-> NoComputedData, workspaceData |-> InitialWorkspaceData]

\* { ...old, ...data }: the fields data has replace those of old
Spread(old, data) ==
    [f \in DOMAIN old |-> IF data[f] # Absent THEN data[f] ELSE old[f]]

\* setSession(id, info)
SetSessionState(s, id, info) ==
    [s EXCEPT !.sessionId = id,
              !.robotInfo = info,
              !.jointPositions = IF info.neutralConfig.def
                                 THEN info.neutralConfig.v ELSE << >>,
              !.jointVelocities = [i \in 1..info.dof |-> 0],
              !.computedData = NoComputedData]

\* clearSession()
ClearSessionState(s) ==
    [s EXCEPT !.sessionId = NullRef,
              !.robotInfo = NoRobotInfo,
              !.jointPositions = << >>,
              !.jointVelocities = << >>,
              !.isAnimating = FALSE,
              !.computedData = NoComputedData]

\* updateComputedData(data)
UpdateComputedDataState(s, data) ==
    [s EXCEPT !.computedData =
        [Spread(s.computedData, data) EXCEPT !.lastComputed = "now"]]

\* setWorkspaceData(data), data holding points or nothing
SetWorkspaceDataState(s, points) ==
    [s EXCEPT !.workspaceData =
        [s.workspaceData EXCEPT
            !.points = IF points # Absent THEN points ELSE @,
            !.lastComputed = "now"]]

-----------------------------------------------------------------------------
(* binarySearchBoundary, loop by loop: pure parts *)

\* a doubling loop that takes the doubled radius as the upper bound
DoubleStepLate(testHigh, maxTests, high, reachable) ==
    IF ~reachable
    THEN [testHigh |-> testHigh, maxTests |-> maxTests,
          high |-> 2 * testHigh, exit |-> TRUE]
    ELSE [testHigh |-> 2 * testHigh, maxTests |-> maxTests - 1,
          high |-> 2 * testHigh, exit |-> maxTests - 1 = 0]

\* one pass of the doubling loop, and the statement after the loop when the
\* pass is the last one: the locals after it
DoubleStep(testHigh, maxTests, high, reachable) ==
    IF ~reachable
    THEN [testHigh |-> testHigh, maxTests |-> maxTests, high |-> testHigh,
          exit |-> TRUE]
    ELSE IF maxTests - 1 > 0
         THEN [testHigh |-> 2 * testHigh, maxTests |-> maxTests - 1,
               high |-> high, exit |-> FALSE]
         ELSE [testHigh |-> 2 * testHigh, maxTests |-> 0,
               high |-> 2 * testHigh, exit |-> TRUE]

\* a bisection that moves the wrong end
BisectStepSwapped(low, high, mid, reachable) ==
    IF reachable THEN [low |-> low, high |-> mid]
    ELSE [low |-> mid, high |-> high]

\* one pass of the bisection loop: low and high after it
BisectStep(low, high, mid, reachable) ==
    IF reachable THEN [low |-> mid, high |-> high]
    ELSE [low |-> low, high |-> mid]

-----------------------------------------------------------------------------
(* throttleAsync: pure parts *)

\* promise === null
NoPromise == [null |-> TRUE, id |-> 0]

\* the promise of the id-th invocation of func
PromiseOf(id) == [null |-> FALSE, id |-> id]

\* one call of the wrapper made by throttleAsync(func, wait) at time now, up
\* to its return: within the window and with a promise held, that promise is
\* returned; otherwise lastCall = now, func is started (its id-th
\* invocation) and the new promise is held and returned
ThrottleAsyncCall(lastCall, promise, now, wait, id) ==
    IF now - lastCall < wait /\ ~promise.null
    THEN [lastCall |-> lastCall, promise |-> promise, started |-> FALSE,
          returned |-> promise]
    ELSE [lastCall |-> now, promise |-> PromiseOf(id), started |-> TRUE,
          returned |-> PromiseOf(id)]

-----------------------------------------------------------------------------
(* debounceAsync: pure parts *)

\* one call of the wrapper made by debounceAsync(func, wait) at time now, up
\* to its return: a pending timer is cleared; when no promise is held a new
\* one (the id-th) is made and its executor sets the timer; the held promise
\* is returned.  `timer` is the timer that will still run: the handle of a
\* cleared timer stays in the variable of the code and is cleared again
\* without effect.
DebounceAsyncCall(timer, promise, args, now, wait, id) ==
    IF promise.null
    THEN [timer |-> [set |-> TRUE, due |-> now + wait, args |-> args],
          promise |-> PromiseOf(id), made |-> TRUE]
    ELSE [timer |-> NoTimer, promise |-> promise, made |-> FALSE]

-----------------------------------------------------------------------------
(* useAnimation: pure parts *)

\* animationRef.current before the first frame is requested (null); the
\* handles of requestAnimationFrame are positive
NoFrame == 0

\* config.speed
AnimSpeeds == { 1, 2 }

\* cancelAnimationFrame(handle): a handle that is not pending is ignored
CancelAnimationFrame(pending, handle) == pending \ { handle }

\* `if (animationRef.current) cancelAnimationFrame(animationRef.current)`
CancelCurrent(pending, ref) ==
    IF ref # NoFrame THEN CancelAnimationFrame(pending, ref) ELSE pending

\* requestAnimationFrame(animate): the browser hands out the next handle
RequestAnimationFrame(pending, handles) ==
    [pending |-> pending \cup { handles + 1 }, handle |-> handles + 1]

\* a startAnimation that requests its frame without cancelling the one before
StartAnimationKeep(pending, ref, handles) ==
    RequestAnimationFrame(pending, handles)

\* startAnimation after its robotInfo guard: the frame in animationRef is
\* cancelled and a new one is requested
StartAnimation(pending, ref, handles) ==
    RequestAnimationFrame(CancelCurrent(pending, ref), handles)

-----------------------------------------------------------------------------
(* State *)

VARIABLES
    \* ---- one call of an IK solver
    ikSolver,       \* "full": solveInverseKinematics, "simple": ...Simple
    ikRobot,        \* the model/data the engine was loaded with
    ikTarget,       \* targetPosition
    ikMaxIter,      \* maxIterations
    ikQ,            \* q
    ikIters,        \* the loop counter (iters / iter)
    ikConverged,    \* converged
    ikFinalError,   \* final_error
    ikPc,           \* "loop", "exit" (left the loop), "done" (returned)
    ikResult,       \* the returned object
    ikEvals,        \* history: number of error measurements made
    ikLastErr,      \* history: the last error measured
    ikMeasuredQ,    \* history: q at the last error measurement
    \* ---- calls of sampleMaxTorques
    tqRobot,        \* robotInfo and the model behind pin.rnea
    tqPositions,    \* positions
    tqVel,          \* velocity
    tqAcc,          \* acceleration
    tqCurrent,      \* current_gravity_torques
    tqMax,          \* max_torques
    tqConfig,       \* maxTorqueConfig
    tqSample,       \* q_sample
    tqPhase,        \* "corners", "grid", "patterns", "ret", "done"
    tqI,            \* the loop index of the phase
    tqResult,       \* the returned object
    tqCall,         \* history: 1 for the first call, 2 for the repeated call
    tqFirst,        \* history: what the first call returned
    \* ---- one call of sampleWorkspaceRayCasting
    wsRobot,        \* robotInfo and the model behind the engine
    wsNumRays,      \* options.numRays
    wsEpsilon,      \* options.epsilon
    wsMaxIK,        \* options.maxIKIterations
    wsOrigin,       \* origin
    wsRays,         \* rays
    wsI,            \* the loop index i
    wsPoints,       \* points
    wsMin,          \* minX, minY, minZ
    wsMax,          \* maxX, maxY, maxZ
    wsProcessed,    \* raysProcessed
    wsPc,           \* "rays", "done"
    wsResult,       \* the returned object
    wsProgress,     \* history: the calls of options.onProgress, in order
    wsBoundary,     \* history: what binarySearchBoundary returned, per ray
    wsCancelled,    \* history: the caller has asked for cancellation
    wsCancelAt,     \* history: rays processed when it asked
    \* ---- one call of computeConvexHull
    hullPoints,     \* pointsArray
    hullFaces,      \* faces of quickHull3D
    hullIter,       \* iterations of the expansion loop
    hullAdded,      \* history: the points the expansion loop made vertices
    hullPc,         \* "start", "expand", "done"
    hullResult,     \* the returned object
    \* ---- the APIService singleton
    apiService,     \* its fields pin, model, data
    apiLast,        \* the last compute call and how it ended
    apiLoaded,      \* history: the arguments of the loadWasmModel calls
    apiEngine,      \* history: some method has called the engine
    apiRejected,    \* history: some method was rejected as not initialized
    \* ---- one Cache
    cacheMaxSize,   \* maxSize
    cacheDefaultTTL,\* defaultTTL
    cache,          \* the Map, as the sequence of its entries in order
    cacheNow,       \* Date.now()
    cachePending,   \* the getOrSet calls that wait for their computeFn
    cacheLast,      \* history: the get that has just returned, and the set it met
    cacheUse,       \* history: the keys held, least recently used first
    cacheWritten,   \* history: the last set of each key held
    cacheExpired,   \* history: keys a get has found expired, not set since
    \* ---- one wrapper made by debounce(func, wait)
    dbWait,         \* wait
    dbNow,          \* the clock, in ticks
    dbTimeout,      \* timeout, with the arguments its callback has captured
    dbBurst,        \* history: the burst of calls the last call belongs to
    dbPrev,         \* history: the burst before it
    \* ---- one wrapper made by throttle(func, wait)
    thWait,         \* wait
    thNow,          \* Date.now(), in ticks
    thTimeout,      \* timeout, with the arguments its callback has captured
    thPrevious,     \* previous
    thLast,         \* history: the last invocation of func
    thBefore,       \* history: the invocation before it
    \* ---- the session store
    store,          \* the state of useSessionStore
    storeCleared,   \* history: the last action was clearSession
    \* ---- one call of binarySearchBoundary
    bsRobot,        \* robotInfo and the model behind the engine
    bsOrigin,       \* origin
    bsDirection,    \* direction
    bsRMax,         \* R_max
    bsEpsilon,      \* epsilon
    bsMaxIK,        \* maxIKIterations
    bsLow,          \* low
    bsHigh,         \* high
    bsTestHigh,     \* testHigh
    bsMaxTests,     \* maxTests
    bsIterations,   \* iterations
    bsPc,           \* "origin", "double", "bisect", "done"
    bsResult,       \* the returned point, or null
    bsTests,        \* history: the tests of the doubling loop, in order
    bsHigh0,        \* history: high when the doubling loop was left
    bsReach,        \* history: radii the bisection found reachable
    bsUnreach,      \* history: radii the bisection found unreachable
    \* ---- one wrapper made by throttleAsync(func, wait)
    taWait,         \* wait
    taNow,          \* Date.now(), in ticks
    taLastCall,     \* lastCall
    taPromise,      \* promise
    taPending,      \* the invocations of func that have not settled
    taStarted,      \* history: how many times func was started
    taOpened,       \* history: the last start of func
    taLast,         \* history: the last call of the wrapper
    \* ---- one wrapper made by debounceAsync(func, wait)
    daWait,         \* wait
    daNow,          \* the clock of the timers, in ticks
    daTimer,        \* the timer that will run, with its captured arguments
    daPromise,      \* promise
    daRunning,      \* func was started by the timer callback and is pending
    daMade,         \* history: how many promises the wrapper has made
    daCalls,        \* history: how many times the wrapper was called
    daUnsettled,    \* history: the promises returned and not yet settled
    daLast,         \* history: the last call of the wrapper
    \* ---- one mounted component that uses useAnimation
    anNow,          \* performance.now(), in ticks
    anPending,      \* the handles of the frames the browser will still run
    anHandles,      \* how many handles requestAnimationFrame has given out
    anRef,          \* animationRef.current
    anTime,         \* timeRef.current
    anIsAnimating,  \* isAnimatingRef.current
    anLastTime,     \* lastTime of the animate closure last made
    anSpeed,        \* config.speed of that closure
    anMounted,      \* the component is mounted
    anRestarted,    \* history: a startAnimation cancelled a pending frame
    anHalted,       \* history: stop, pause or unmount came after the last start
    anSetSince      \* history: setJointPositions was called since then

ikVars == << ikSolver, ikRobot, ikTarget, ikMaxIter, ikQ, ikIters, ikConverged,
             ikFinalError, ikPc, ikResult, ikEvals, ikLastErr, ikMeasuredQ >>

tqVars == << tqRobot, tqPositions, tqVel, tqAcc, tqCurrent, tqMax, tqConfig,
             tqSample, tqPhase, tqI, tqResult, tqCall, tqFirst >>

wsVars == << wsRobot, wsNumRays, wsEpsilon, wsMaxIK, wsOrigin, wsRays, wsI,
             wsPoints, wsMin, wsMax, wsProcessed, wsPc, wsResult, wsProgress,
             wsBoundary, wsCancelled, wsCancelAt >>

hullVars ==
    << hullPoints, hullFaces, hullIter, hullAdded, hullPc, hullResult >>

apiVars == << apiService, apiLast, apiLoaded, apiEngine, apiRejected >>
cacheVars == << cacheMaxSize, cacheDefaultTTL, cache, cacheNow, cachePending,
                cacheLast, cacheUse, cacheWritten, cacheExpired >>
dbVars == << dbWait, dbNow, dbTimeout, dbBurst, dbPrev >>
thVars == << thWait, thNow, thTimeout, thPrevious, thLast, thBefore >>

stVars == << store, storeCleared >>

bsVars == << bsRobot, bsOrigin, bsDirection, bsRMax, bsEpsilon, bsMaxIK,
             bsLow, bsHigh, bsTestHigh, bsMaxTests, bsIterations, bsPc,
             bsResult, bsTests, bsHigh0, bsReach, bsUnreach >>

taVars ==
    << taWait, taNow, taLastCall, taPromise, taPending, taStarted,
       taOpened, taLast >>

daVars ==
    << daWait, daNow, daTimer, daPromise, daRunning, daMade, daCalls,
       daUnsettled, daLast >>

anVars ==
    << anNow, anPending, anHandles, anRef, anTime, anIsAnimating,
       anLastTime, anSpeed, anMounted, anRestarted, anHalted, anSetSince >>

\* what the operations of one part of the program leave unchanged
ikOthers == << tqVars, wsVars, hullVars, apiVars, cacheVars,
               dbVars, thVars, stVars, bsVars, taVars,
               daVars, anVars >>

tqOthers == << ikVars, wsVars, hullVars, apiVars, cacheVars,
               dbVars, thVars, stVars, bsVars, taVars,
               daVars, anVars >>

wsOthers == << ikVars, tqVars, hullVars, apiVars, cacheVars,
               dbVars, thVars, stVars, bsVars, taVars,
               daVars, anVars >>

hullOthers == << ikVars, tqVars, wsVars, apiVars, cacheVars,
                 dbVars, thVars, stVars, bsVars, taVars,
                 daVars, anVars >>

apiOthers == << ikVars, tqVars, wsVars, hullVars, cacheVars,
                dbVars, thVars, stVars, bsVars, taVars,
                daVars, anVars >>

cacheOthers == << ikVars, tqVars, wsVars, hullVars, apiVars,
                  dbVars, thVars, stVars, bsVars, taVars,
                  daVars, anVars >>

dbOthers == << ikVars, tqVars, wsVars, hullVars, apiVars,
               cacheVars, thVars, stVars, bsVars, taVars,
               daVars, anVars >>

thOthers == << ikVars, tqVars, wsVars, hullVars, apiVars,
               cacheVars, dbVars, stVars, bsVars, taVars,
               daVars, anVars >>

stOthers == << ikVars, tqVars, wsVars, hullVars, apiVars,
               cacheVars, dbVars, thVars, bsVars, taVars,
               daVars, anVars >>

bsOthers == << ikVars, tqVars, wsVars, hullVars, apiVars,
               cacheVars, dbVars, thVars, stVars, taVars,
               daVars, anVars >>

taOthers == << ikVars, tqVars, wsVars, hullVars, apiVars,
               cacheVars, dbVars, thVars, stVars, bsVars,
               daVars, anVars >>

daOthers == << ikVars, tqVars, wsVars, hullVars, apiVars,
               cacheVars, dbVars, thVars, stVars, bsVars,
               taVars, anVars >>

anOthers == << ikVars, tqVars, wsVars, hullVars, apiVars,
               cacheVars, dbVars, thVars, stVars, bsVars,
               taVars, daVars >>

vars == << ikVars, tqVars, wsVars, hullVars, apiVars,
           cacheVars, dbVars, thVars, stVars, bsVars, taVars,
           daVars, anVars >>

-----------------------------------------------------------------------------
(* The IK solvers, one loop iteration per step *)

IKTargets ==
    { << Fin(8), Fin(0), Fin(0) >>,
      << Fin(4), Fin(16), Fin(0) >>,
      << Fin(0), Fin(-8), Fin(4) >>,
      << Fin(0), Fin(0), Fin(0) >>,
      << NaN, Fin(0), Fin(0) >> }

IKStarts(robot) == [1..Nv(robot) -> {Fin(0), Fin(-8)}]

NoResult == [none |-> TRUE]

ikIdle ==
    /\ ikSolver = "none" /\ ikRobot = Robot(<<>>, <<0, 0, 0>>, <<>>, <<>>)
    /\ ikTarget = <<>> /\ ikMaxIter = 0 /\ ikQ = <<>> /\ ikIters = 0
    /\ ikConverged = FALSE /\ ikFinalError = PosInf /\ ikPc = "idle"
    /\ ikResult = NoResult /\ ikEvals = 0 /\ ikLastErr = PosInf
    /\ ikMeasuredQ = <<>>

\* entry of the solver: q = new Float64Array(initialPositions),
\* converged = false, final_error = +Infinity, iters = 0
ikInit ==
    /\ ikSolver \in {"full", "simple"}
    /\ ikRobot \in Robots
    /\ ikTarget \in IKTargets
    /\ ikMaxIter \in 0..MaxIterations
    /\ ikQ \in IKStarts(ikRobot)
    /\ ikIters = 0
    /\ ikConverged = FALSE
    /\ ikFinalError = PosInf
    /\ ikPc = "loop"
    /\ ikResult = NoResult
    /\ ikEvals = 0
    /\ ikLastErr = PosInf
    /\ ikMeasuredQ = ikQ

\* one pass through the body of `for (iters = 0; iters < maxIterations; iters++)`
IKIterate ==
    /\ ikPc = "loop"
    /\ ikIters < ikMaxIter
    /\ LET s == IF ikSolver = "full" THEN FullStep(ikRobot, ikTarget, ikQ)
                ELSE SimpleStep(ikRobot, ikTarget, ikQ)
       IN /\ ikFinalError' = s.final_error
          /\ ikEvals' = ikEvals + 1
          /\ ikLastErr' = s.final_error
          /\ ikMeasuredQ' = ikQ
          /\ ikQ' = s.q
          /\ ikConverged' = (ikSolver = "full" /\ s.converged)
          /\ IF ikSolver = "simple" /\ s.converged
             THEN \* return { converged: true, final_error }
                  /\ ikPc' = "done"
                  /\ ikResult' = [converged |-> TRUE, final_error |-> s.final_error]
                  /\ ikIters' = ikIters
             ELSE /\ ikPc' = IF s.brk THEN "exit" ELSE "loop"
                  /\ ikResult' = ikResult
                  /\ ikIters' = IF s.brk THEN ikIters ELSE ikIters + 1
    /\ UNCHANGED << ikSolver, ikRobot, ikTarget, ikMaxIter >>
    /\ UNCHANGED ikOthers

\* the return statement after the loop
IKReturn ==
    /\ ikPc = "exit" \/ (ikPc = "loop" /\ ikIters >= ikMaxIter)
    /\ ikPc' = "done"
    /\ ikResult' =
         IF ikSolver = "full"
         THEN [positions |-> ikQ, converged |-> ikConverged,
               final_error |-> ikFinalError, iterations |-> ikIters]
         ELSE SimpleNotConverged
    /\ UNCHANGED << ikSolver, ikRobot, ikTarget, ikMaxIter, ikQ, ikIters,
                    ikConverged, ikFinalError, ikEvals, ikLastErr, ikMeasuredQ >>
    /\ UNCHANGED ikOthers

-----------------------------------------------------------------------------
(* sampleMaxTorques, one sample per step *)

tqIdle ==
    /\ tqRobot = TqRobot(<<>>, <<>>, <<>>) /\ tqPositions = <<>>
    /\ tqVel = <<>> /\ tqAcc = <<>> /\ tqCurrent = <<>> /\ tqMax = <<>>
    /\ tqConfig = <<>> /\ tqSample = <<>> /\ tqPhase = "idle" /\ tqI = 0
    /\ tqResult = NoResult /\ tqCall = 0 /\ tqFirst = NoResult

\* the calls made: << robot, positions, jointAccelerations >>.  The positions
\* are the peak pose (13) or a pose outside the joint-limit box (28: IK
\* results are not clamped to the limits); jointVelocities is 0.
TqCalls ==
    ({ r \in TqRobots : Len(r.kinds) = 1 } \X {<<13>>, <<28>>} \X {0, 3})
    \cup ({ r \in TqRobots : Len(r.kinds) = 2 } \X {<<-28, 13>>} \X {0})

\* the state of a call when its sampling starts: velocity/acceleration
\* arrays built, current torques computed, max_torques and maxTorqueConfig
\* zero-filled, q_sample a fresh Float64Array
TqEntry(robot, positions, vel, acc) ==
    LET n == Len(positions)
    IN /\ tqRobot' = robot
       /\ tqPositions' = positions
       /\ tqVel' = vel
       /\ tqAcc' = acc
       /\ tqCurrent' = Rnea(robot, positions, vel, acc)
       /\ tqMax' = [j \in 1..n |-> 0]
       /\ tqConfig' = [j \in 1..n |-> 0]
       /\ tqSample' = [j \in 1..n |-> 0]
       /\ tqPhase' = "corners"
       /\ tqI' = 0
       /\ tqResult' = NoResult

tqInit ==
    \E c \in TqCalls :
        /\ tqRobot = c[1]
        /\ tqPositions = c[2]
        /\ tqVel = Broadcast(0, Len(c[2]))
        /\ tqAcc = Broadcast(c[3], Len(c[2]))
        /\ tqCurrent = Rnea(c[1], c[2], Broadcast(0, Len(c[2])), Broadcast(c[3], Len(c[2])))
        /\ tqMax = [j \in 1..Len(c[2]) |-> 0]
        /\ tqConfig = [j \in 1..Len(c[2]) |-> 0]
        /\ tqSample = [j \in 1..Len(c[2]) |-> 0]
        /\ tqPhase = "corners"
        /\ tqI = 0
        /\ tqResult = NoResult
        /\ tqCall = 1
        /\ tqFirst = NoResult

\* q_sample filled and evaluateTorque(q_sample) called
TqEvaluate(q) ==
    LET r == EvaluateTorque(tqRobot, q, tqVel, tqAcc, tqMax, tqConfig)
    IN /\ tqSample' = q
       /\ tqMax' = r[1]
       /\ tqConfig' = r[2]

\* Phase 1: one corner of the joint-limit box
TqCorner ==
    /\ tqPhase = "corners"
    /\ TqEvaluate(CornerSample(tqRobot, tqI))
    /\ IF tqI + 1 < NumCorners(Len(tqPositions))
       THEN tqI' = tqI + 1 /\ tqPhase' = "corners"
       ELSE tqI' = 0 /\ tqPhase' = "grid"
    /\ UNCHANGED << tqRobot, tqPositions, tqVel, tqAcc, tqCurrent, tqResult,
                    tqCall, tqFirst >>
    /\ UNCHANGED tqOthers

\* Phase 2: one sample of the stratified grid; Math.random() is called once
\* per joint
TqGrid ==
    /\ tqPhase = "grid"
    /\ \E rnd \in [1..Len(tqPositions) -> RandQuarters] :
          TqEvaluate(GridSample(tqRobot, tqI, rnd))
    /\ IF tqI + 1 < GridSamples
       THEN tqI' = tqI + 1 /\ tqPhase' = "grid"
       ELSE tqI' = 0 /\ tqPhase' = "patterns"
    /\ UNCHANGED << tqRobot, tqPositions, tqVel, tqAcc, tqCurrent, tqResult,
                    tqCall, tqFirst >>
    /\ UNCHANGED tqOthers

\* Phase 3: one of the 12 fixed patterns
TqPattern ==
    /\ tqPhase = "patterns"
    /\ TqEvaluate(PatternSample(tqRobot, tqI))
    /\ IF tqI + 1 < NumPatterns
       THEN tqI' = tqI + 1 /\ tqPhase' = "patterns"
       ELSE tqI' = 0 /\ tqPhase' = "ret"
    /\ UNCHANGED << tqRobot, tqPositions, tqVel, tqAcc, tqCurrent, tqResult,
                    tqCall, tqFirst >>
    /\ UNCHANGED tqOthers

\* return { max_torques, current_gravity_torques, joint_names, maxTorqueConfig }
TqReturn ==
    /\ tqPhase = "ret"
    /\ tqPhase' = "done"
    /\ tqResult' = [max_torques |-> tqMax, current_gravity_torques |-> tqCurrent,
                    maxTorqueConfig |-> tqConfig]
    /\ UNCHANGED << tqRobot, tqPositions, tqVel, tqAcc, tqCurrent, tqMax,
                    tqConfig, tqSample, tqI, tqCall, tqFirst >>
    /\ UNCHANGED tqOthers

\* the caller calls sampleMaxTorques again with the same arguments
TqCallAgain ==
    /\ tqPhase = "done"
    /\ tqCall = 1
    /\ Len(tqPositions) = 1
    /\ tqCall' = 2
    /\ tqFirst' = tqResult
    /\ TqEntry(tqRobot, tqPositions, tqVel, tqAcc)
    /\ UNCHANGED tqOthers

-----------------------------------------------------------------------------
(* sampleWorkspaceRayCasting, one ray per step *)

wsIdle ==
    /\ wsRobot = Robot(<<>>, <<0, 0, 0>>, <<>>, <<>>) /\ wsNumRays = 0
    /\ wsEpsilon = 0 /\ wsMaxIK = 0 /\ wsOrigin = <<>> /\ wsRays = <<>>
    /\ wsI = 0 /\ wsPoints = <<>> /\ wsMin = <<>> /\ wsMax = <<>>
    /\ wsProcessed = 0 /\ wsPc = "idle" /\ wsResult = NoResult
    /\ wsProgress = <<>> /\ wsBoundary = <<>> /\ wsCancelled = FALSE
    /\ wsCancelAt = 0

\* the options callers pass, << epsilon, maxIKIterations >>: epsilon 1e-3
\* (the default) and 1e-4, in units of 2.5e-5
WsOptions == { <<40, 3>>, <<4, 3>>, <<40, 0>>, <<40, 40>> }

\* entry of the sampler: origin, rays, empty points, an empty bounding box
wsInit ==
    /\ wsRobot \in Robots
    /\ wsNumRays \in 0..MaxRays
    /\ \E o \in WsOptions : wsEpsilon = o[1] /\ wsMaxIK = o[2]
    /\ wsOrigin = FindWorkspaceOrigin(wsRobot)
    /\ wsRays = GenerateSphericalRays(wsNumRays)
    /\ wsI = 0
    /\ wsPoints = <<>>
    /\ wsMin = << PosInf, PosInf, PosInf >>
    /\ wsMax = << NegInf, NegInf, NegInf >>
    /\ wsProcessed = 0
    /\ wsPc = "rays"
    /\ wsResult = NoResult
    /\ wsProgress = <<>>
    /\ wsBoundary = <<>>
    /\ wsCancelled \in BOOLEAN
    /\ wsCancelAt = 0

\* the callback called with the loop index itself
ProgressCallZeroBased(i, rays, b) == [current |-> i, total |-> Len(rays), point |-> b]

\* the arguments of onProgress?.(i + 1, rays.length, boundaryPoint || undefined)
ProgressCall(i, rays, b) == [current |-> i + 1, total |-> Len(rays), point |-> b]

\* One pass through the body of `for (let i = 0; i < rays.length; i++)`:
\* the boundary search, the bookkeeping of an accepted point, the progress
\* callback.  The callback is the only code of the caller that runs while
\* the sampler does, so it is where a caller can ask for cancellation; the
\* options carry no cancellation token and the loop reads none.
WsRay ==
    /\ wsPc = "rays"
    /\ wsI < Len(wsRays)
    /\ \E b \in { BinarySearchBoundary(wsRobot, wsOrigin, wsRays[wsI + 1], 0,
                      EstimateMaxReach(wsRobot), wsEpsilon, wsMaxIK) } :
          /\ IF ~b.null
             THEN /\ wsPoints' = Append(wsPoints, b.p)
                  /\ wsProcessed' = wsProcessed + 1
                  /\ wsMin' = BoxMin(wsMin, b.p)
                  /\ wsMax' = BoxMax(wsMax, b.p)
             ELSE UNCHANGED << wsPoints, wsProcessed, wsMin, wsMax >>
          /\ wsProgress' = Append(wsProgress, ProgressCall(wsI, wsRays, b))
          /\ wsBoundary' = Append(wsBoundary, b)
    /\ wsI' = wsI + 1
    /\ \/ UNCHANGED << wsCancelled, wsCancelAt >>
       \/ /\ ~wsCancelled
          /\ wsCancelled' = TRUE
          /\ wsCancelAt' = wsI + 1
    /\ UNCHANGED << wsRobot, wsNumRays, wsEpsilon, wsMaxIK, wsOrigin, wsRays,
                    wsPc, wsResult >>
    /\ UNCHANGED wsOthers

\* the return statement after the loop
WsReturn ==
    /\ wsPc = "rays"
    /\ wsI >= Len(wsRays)
    /\ wsPc' = "done"
    /\ wsResult' = [points |-> wsPoints,
                    pointCount |-> Len(wsPoints),
                    boundingBox |-> [min |-> wsMin, max |-> wsMax],
                    numSamples |-> Len(wsPoints),
                    raysProcessed |-> wsProcessed,
                    successRate |-> SuccessRate(wsProcessed, Len(wsRays))]
    /\ UNCHANGED << wsRobot, wsNumRays, wsEpsilon, wsMaxIK, wsOrigin, wsRays,
                    wsI, wsPoints, wsMin, wsMax, wsProcessed, wsProgress,
                    wsBoundary, wsCancelled, wsCancelAt >>
    /\ UNCHANGED wsOthers

-----------------------------------------------------------------------------
(* computeConvexHull, one pass of the expansion loop per step *)

hullIdle ==
    /\ hullPoints = << >> /\ hullFaces = << >> /\ hullIter = 0
    /\ hullAdded = {}
    /\ hullPc = "idle" /\ hullResult = NoResult

\* the corners of the unit cube
CubeCorners ==
    << <<0, 0, 0>>, <<1, 0, 0>>, <<0, 1, 0>>, <<1, 1, 0>>,
       <<0, 0, 1>>, <<1, 0, 1>>, <<0, 1, 1>>, <<1, 1, 1>> >>

\* orders of the corners: any three of them first, then the others
CubeOrders ==
    { << CubeCorners[t[1]], CubeCorners[t[2]], CubeCorners[t[3]] >>
        \o SelectSeq(CubeCorners,
                     LAMBDA p : p \notin { CubeCorners[t[1]], CubeCorners[t[2]],
                                           CubeCorners[t[3]] }) :
        t \in { u \in (1..8) \X (1..8) \X (1..8) :
                  u[1] # u[2] /\ u[1] # u[3] /\ u[2] # u[3] } }

\* other point clouds: three points; tetrahedra given in both orientations;
\* a cloud with an inner point; four points of one plane; a cloud whose
\* hull loses all its faces; a cloud with three distinct extremes
OtherClouds ==
    { << <<0, 0, 0>>, <<1, 0, 0>>, <<0, 1, 0>> >>,
      << <<1, 1, 1>>, <<2, 0, 1>>, <<2, 2, 0>>, <<0, 0, 0>> >>,
      << <<0, 0, 2>>, <<0, 2, 2>>, <<0, 1, 0>>, <<1, 2, 0>> >>,
      << <<0, 2, 1>>, <<1, 1, 2>>, <<2, 2, 0>>, <<2, 0, 0>>, <<1, 1, 1>> >>,
      << <<0, 1, 1>>, <<2, 2, 1>>, <<2, 0, 2>>, <<0, 0, 0>>, <<1, 0, 0>> >>,
      << <<1, 1, 0>>, <<1, 0, 1>>, <<1, 1, 2>>, <<0, 1, 0>>, <<1, 0, 2>> >>,
      << <<1, 0, 0>>, <<0, 1, 0>>, <<2, 1, 0>>, <<1, 2, 0>> >>,
      << <<1, 0, 1>>, <<1, 1, 1>>, <<1, 1, 0>>, <<0, 1, 2>>, <<2, 0, 0>> >>,
      << <<0, 1, 1>>, <<2, 0, 0>>, <<2, 2, 1>>, <<2, 2, 0>> >> }

hullInit ==
    /\ hullPoints \in CubeOrders \cup OtherClouds
    /\ hullFaces = << >>
    /\ hullIter = 0
    /\ hullAdded = {}
    /\ hullPc = "start"
    /\ hullResult = NoResult

\* computeConvexHull up to the expansion loop of quickHull3D: fewer than 4
\* points are returned without faces; fewer than 4 distinct extremes give the
\* bounding box; otherwise the initial tetrahedron is built
HullStart ==
    /\ hullPc = "start"
    /\ IF Len(hullPoints) < 4
       THEN /\ hullResult' = [vertices |-> Flat(hullPoints), faces |-> << >>]
            /\ hullPc' = "done"
            /\ UNCHANGED hullFaces
       ELSE IF Len(UniqueExtremes(hullPoints)) < 4
       THEN /\ hullResult' = BoundingBoxFallback(hullPoints)
            /\ hullPc' = "done"
            /\ UNCHANGED hullFaces
       ELSE /\ hullFaces' \in InitialHulls(hullPoints)
            /\ hullPc' = "expand"
            /\ UNCHANGED hullResult
    /\ UNCHANGED << hullPoints, hullIter, hullAdded >>
    /\ UNCHANGED hullOthers

\* one pass of `while (iterations < maxIterations)` that does not break
HullExpand ==
    /\ hullPc = "expand"
    /\ hullIter < 3 * Len(hullPoints)
    /\ \E best \in BestCandidates(hullFaces, hullPoints) :
          /\ hullFaces' = ExpandStep(hullFaces, hullPoints, best)
          /\ hullAdded' =
                IF VisibleFaces(hullFaces, hullPoints, best.face,
                                best.point) = << >>
                THEN hullAdded ELSE hullAdded \cup { best.point }
    /\ hullIter' = hullIter + 1
    /\ UNCHANGED << hullPoints, hullPc, hullResult >>
    /\ UNCHANGED hullOthers

\* the loop ends (no face has a point outside, or maxIterations passes were
\* made) and the result is extracted
HullExtract ==
    /\ hullPc = "expand"
    /\ \/ hullIter >= 3 * Len(hullPoints)
       \/ BestCandidates(hullFaces, hullPoints) = {}
    /\ hullResult' = ExtractResult(hullFaces, hullPoints)
    /\ hullPc' = "done"
    /\ UNCHANGED << hullPoints, hullFaces, hullIter, hullAdded >>
    /\ UNCHANGED hullOthers

-----------------------------------------------------------------------------
(* APIService, one method call per step *)

apiIdle ==
    /\ apiService = [pin |-> NullRef, model |-> NullRef, data |-> NullData]
    /\ apiLast = [method |-> "none", outcome |-> "none"]
    /\ apiLoaded = << >>
    /\ apiEngine = FALSE
    /\ apiRejected = FALSE

apiInit == apiIdle

LoadWasmModel ==
    /\ Len(apiLoaded) < MaxLoads
    /\ \E pin \in Pins, model \in Models :
          /\ apiService' = LoadedService(apiService, pin, model,
                                         Len(apiLoaded) + 1)
          /\ apiLoaded' = Append(apiLoaded, [pin |-> pin, model |-> model])
    /\ UNCHANGED << apiLast, apiEngine, apiRejected >>
    /\ UNCHANGED apiOthers

Compute ==
    /\ \E method \in Methods, robotInfo \in BOOLEAN :
          \E outcome \in { ComputeOutcome(method, apiService, robotInfo) } :
             /\ apiLast' = [method |-> method, outcome |-> outcome]
             /\ apiEngine' = (apiEngine \/ outcome = "engine")
             /\ apiRejected' =
                   (apiRejected \/ outcome = "WASM not initialized")
    /\ UNCHANGED << apiService, apiLoaded >>
    /\ UNCHANGED apiOthers

-----------------------------------------------------------------------------
(* Cache, one operation per step *)

NoWrite == [set |-> FALSE, data |-> NullRef, at |-> 0, ttl |-> Null]

NoGet ==
    [key |-> NullRef, result |-> NullRef, existed |-> FALSE,
     written |-> NoWrite]

cacheIdle ==
    /\ cacheMaxSize = 1
    /\ cacheDefaultTTL = 0
    /\ cache = << >>
    /\ cacheNow = 0
    /\ cachePending = {}
    /\ cacheLast = NoGet
    /\ cacheUse = << >>
    /\ cacheWritten = [k \in CacheKeys |-> NoWrite]
    /\ cacheExpired = {}

\* new Cache(maxSize, defaultTTL)
cacheInit ==
    /\ cacheMaxSize \in CacheSizes
    /\ cacheDefaultTTL \in DefaultTtls
    /\ cache = << >>
    /\ cacheNow = 0
    /\ cachePending = {}
    /\ cacheLast = NoGet
    /\ cacheUse = << >>
    /\ cacheWritten = [k \in CacheKeys |-> NoWrite]
    /\ cacheExpired = {}

\* the key becomes the most recently used one
Touch(use, key) == Append(SelectSeq(use, LAMBDA k : k # key), key)

\* the histories of use and of writing are kept for the keys still held
HeldHistory(use, written) ==
    /\ cacheUse' = SelectSeq(use, LAMBDA k : k \in KeysOf(cache'))
    /\ cacheWritten' = [k \in CacheKeys |->
                           IF k \in KeysOf(cache') THEN written[k]
                           ELSE NoWrite]

\* the history after get(key) has returned r
GetHistory(key, r) ==
    /\ cacheLast' = [key |-> key, result |-> r.result,
                     existed |-> key \in KeysOf(cache),
                     written |-> cacheWritten[key]]
    /\ HeldHistory(IF r.result # NullRef THEN Touch(cacheUse, key)
                   ELSE cacheUse, cacheWritten)
    /\ cacheExpired' = IF key \in KeysOf(cache) /\ r.result = NullRef
                       THEN cacheExpired \cup { key } ELSE cacheExpired

\* the history after set(key, data, ttl)
SetHistory(key, data, ttl) ==
    /\ cacheLast' = NoGet
    /\ HeldHistory(Touch(cacheUse, key),
                   [cacheWritten EXCEPT
                       ![key] = [set |-> TRUE, data |-> data,
                                 at |-> cacheNow, ttl |-> ttl]])
    /\ cacheExpired' = cacheExpired \ { key }

\* time passes
CacheTick ==
    /\ cacheNow < MaxTime
    /\ cacheNow' = cacheNow + 1
    /\ cacheLast' = NoGet
    /\ UNCHANGED << cacheMaxSize, cacheDefaultTTL, cache, cachePending,
                    cacheUse, cacheWritten, cacheExpired >>
    /\ UNCHANGED cacheOthers

CacheGetCall ==
    /\ \E key \in CacheKeys :
          \E r \in { CacheGet(cache, key, cacheNow) } :
             /\ cache' = r.cache
             /\ GetHistory(key, r)
    /\ UNCHANGED << cacheMaxSize, cacheDefaultTTL, cacheNow, cachePending >>
    /\ UNCHANGED cacheOthers

CacheSetCall ==
    /\ \E key \in CacheKeys, data \in CacheData, ttl \in TtlArgs :
          /\ cache' = CacheSet(cache, key, data, ttl, cacheNow, cacheMaxSize,
                               cacheDefaultTTL)
          /\ SetHistory(key, data, ttl)
    /\ UNCHANGED << cacheMaxSize, cacheDefaultTTL, cacheNow, cachePending >>
    /\ UNCHANGED cacheOthers

CacheDelete ==
    /\ \E key \in CacheKeys : cache' = MapDelete(cache, key)
    /\ cacheLast' = NoGet
    /\ HeldHistory(cacheUse, cacheWritten)
    /\ UNCHANGED << cacheMaxSize, cacheDefaultTTL, cacheNow, cachePending,
                    cacheExpired >>
    /\ UNCHANGED cacheOthers

CacheClear ==
    /\ cache' = << >>
    /\ cacheLast' = NoGet
    /\ HeldHistory(cacheUse, cacheWritten)
    /\ UNCHANGED << cacheMaxSize, cacheDefaultTTL, cacheNow, cachePending,
                    cacheExpired >>
    /\ UNCHANGED cacheOthers

\* getOrSet up to its await: the get, and on a miss the call of computeFn
\* (the ttl argument is drawn where it is used, after the await)
CacheGetOrSet ==
    /\ \E key \in CacheKeys :
          \E r \in { CacheGet(cache, key, cacheNow) } :
             /\ r.result = NullRef =>
                   ( /\ key \notin cachePending
                     /\ Cardinality(cachePending) < MaxPending )
             /\ cache' = r.cache
             /\ GetHistory(key, r)
             /\ cachePending' = IF r.result = NullRef
                                THEN cachePending \cup { key }
                                ELSE cachePending
    /\ UNCHANGED << cacheMaxSize, cacheDefaultTTL, cacheNow >>
    /\ UNCHANGED cacheOthers

\* getOrSet after its await: computeFn has produced data, which is set
CacheComputed ==
    /\ \E key \in cachePending, data \in CacheData, ttl \in TtlArgs :
          /\ cache' = CacheSet(cache, key, data, ttl, cacheNow, cacheMaxSize,
                               cacheDefaultTTL)
          /\ SetHistory(key, data, ttl)
          /\ cachePending' = cachePending \ { key }
    /\ UNCHANGED << cacheMaxSize, cacheDefaultTTL, cacheNow >>
    /\ UNCHANGED cacheOthers

-----------------------------------------------------------------------------
(* debounce, one call or one timer callback per step *)

\* a burst: its first and last call, and the invocations of func made while
\* it was the last burst
NoBurst ==
    [exists |-> FALSE, firstArgs |-> NullRef, lastAt |-> 0,
     lastArgs |-> NullRef, invoked |-> 0, invAt |-> 0, invArgs |-> NullRef]

dbIdle ==
    /\ dbWait = 0
    /\ dbNow = 0
    /\ dbTimeout = NoTimer
    /\ dbBurst = NoBurst
    /\ dbPrev = NoBurst

\* debounce(func, wait)
dbInit ==
    /\ dbWait \in 1..MaxWait
    /\ dbNow = 0
    /\ dbTimeout = NoTimer
    /\ dbBurst = NoBurst
    /\ dbPrev = NoBurst

\* time passes
DbTick ==
    /\ dbNow < MaxDebounceTime
    /\ dbNow' = dbNow + 1
    /\ UNCHANGED << dbWait, dbTimeout, dbBurst, dbPrev >>
    /\ UNCHANGED dbOthers

\* the wrapper is called; a call less than wait after the previous one
\* continues its burst, any other call opens a new burst
DbCall ==
    /\ \E args \in DebounceArgs :
          /\ dbTimeout' = DebounceCall(dbTimeout, args, dbNow, dbWait)
          /\ IF dbBurst.exists /\ dbNow - dbBurst.lastAt < dbWait
             THEN /\ dbBurst' = [dbBurst EXCEPT !.lastAt = dbNow,
                                                 !.lastArgs = args]
                  /\ dbPrev' = dbPrev
             ELSE /\ dbBurst' = [NoBurst EXCEPT !.exists = TRUE,
                                                 !.firstArgs = args,
                                                 !.lastAt = dbNow,
                                                 !.lastArgs = args]
                  /\ dbPrev' = dbBurst
    /\ UNCHANGED << dbWait, dbNow >>
    /\ UNCHANGED dbOthers

\* the callback of the timer runs: timeout = null; func.apply(context, args)
DbFire ==
    /\ TimerDue(dbTimeout, dbNow)
    /\ dbTimeout' = NoTimer
    /\ dbBurst' = [dbBurst EXCEPT !.invoked = dbBurst.invoked + 1,
                                  !.invAt = dbNow,
                                  !.invArgs = dbTimeout.args]
    /\ UNCHANGED << dbWait, dbNow, dbPrev >>
    /\ UNCHANGED dbOthers

-----------------------------------------------------------------------------
(* throttle, one call or one timer callback per step *)

NoInvocation == [some |-> FALSE, at |-> 0, args |-> NullRef]

thIdle ==
    /\ thWait = 0
    /\ thNow = 0
    /\ thTimeout = NoTimer
    /\ thPrevious = 0
    /\ thLast = NoInvocation
    /\ thBefore = NoInvocation

\* throttle(func, wait), made when the clock is more than wait past its zero
thInit ==
    /\ thWait \in 1..MaxWait
    /\ thNow = thWait + 1
    /\ thTimeout = NoTimer
    /\ thPrevious = 0
    /\ thLast = NoInvocation
    /\ thBefore = NoInvocation

\* time passes
ThTick ==
    /\ thNow < MaxThrottleTime
    /\ thNow' = thNow + 1
    /\ UNCHANGED << thWait, thTimeout, thPrevious, thLast, thBefore >>
    /\ UNCHANGED thOthers

\* the wrapper is called
ThCall ==
    /\ \E args \in DebounceArgs :
          \E r \in { ThrottleCall(thTimeout, thPrevious, args, thNow,
                                  thWait) } :
             /\ thTimeout' = r.timeout
             /\ thPrevious' = r.previous
             /\ IF r.invoke
                THEN /\ thLast' = [some |-> TRUE, at |-> thNow,
                                   args |-> args]
                     /\ thBefore' = thLast
                ELSE UNCHANGED << thLast, thBefore >>
    /\ UNCHANGED << thWait, thNow >>
    /\ UNCHANGED thOthers

\* the callback of the timer runs: timeout = null; previous = Date.now();
\* func.apply(context, args)
ThFire ==
    /\ TimerDue(thTimeout, thNow)
    /\ thTimeout' = NoTimer
    /\ thPrevious' = thNow
    /\ thLast' = [some |-> TRUE, at |-> thNow, args |-> thTimeout.args]
    /\ thBefore' = thLast
    /\ UNCHANGED << thWait, thNow >>
    /\ UNCHANGED thOthers

-----------------------------------------------------------------------------
(* useSessionStore, one action of the store per step *)

stIdle ==
    /\ store = InitialStore
    /\ storeCleared = FALSE

stInit == stIdle

SetSession ==
    /\ \E id \in SessionIds, info \in RobotInfos :
          store' = SetSessionState(store, id, info)
    /\ storeCleared' = FALSE
    /\ UNCHANGED stOthers

ClearSession ==
    /\ store' = ClearSessionState(store)
    /\ storeCleared' = TRUE
    /\ UNCHANGED stOthers

SetJointPositions ==
    /\ \E positions \in JointVectors :
          store' = [store EXCEPT !.jointPositions = positions]
    /\ storeCleared' = FALSE
    /\ UNCHANGED stOthers

SetJointVelocities ==
    /\ \E velocities \in JointVectors :
          store' = [store EXCEPT !.jointVelocities = velocities]
    /\ storeCleared' = FALSE
    /\ UNCHANGED stOthers

SetAnimating ==
    /\ \E animating \in BOOLEAN :
          store' = [store EXCEPT !.isAnimating = animating]
    /\ storeCleared' = FALSE
    /\ UNCHANGED stOthers

UpdateComputedData ==
    /\ \E t \in { Absent, "torques" }, e \in { Absent, "energy" } :
          store' = UpdateComputedDataState(store,
                      [torques |-> t, energy |-> e, lastComputed |-> Absent])
    /\ storeCleared' = FALSE
    /\ UNCHANGED stOthers

ClearComputedData ==
    /\ store' = [store EXCEPT !.computedData = NoComputedData]
    /\ storeCleared' = FALSE
    /\ UNCHANGED stOthers

SetWorkspaceData ==
    /\ \E points \in { Absent, "points" } :
          store' = SetWorkspaceDataState(store, points)
    /\ storeCleared' = FALSE
    /\ UNCHANGED stOthers

ClearWorkspaceData ==
    /\ store' = [store EXCEPT !.workspaceData = InitialWorkspaceData]
    /\ storeCleared' = FALSE
    /\ UNCHANGED stOthers

ToggleWorkspaceVisibility ==
    /\ store' = [store EXCEPT !.workspaceData.showWorkspace = ~@]
    /\ storeCleared' = FALSE
    /\ UNCHANGED stOthers

SetWorkspaceColor ==
    /\ \E color \in { "#60a5fa", "#f87171" } :
          store' = [store EXCEPT !.workspaceData.workspaceColor = color]
    /\ storeCleared' = FALSE
    /\ UNCHANGED stOthers

SetWorkspacePointSize ==
    /\ \E size \in { "0.08", "0.2" } :
          store' = [store EXCEPT !.workspaceData.workspacePointSize = size]
    /\ storeCleared' = FALSE
    /\ UNCHANGED stOthers

-----------------------------------------------------------------------------
(* binarySearchBoundary, one reachability test per step *)

bsIdle ==
    /\ bsRobot = Robot(<< >>, <<0, 0, 0>>, << >>, << >>)
    /\ bsOrigin = << >> /\ bsDirection = << >>
    /\ bsRMax = 0 /\ bsEpsilon = 0 /\ bsMaxIK = 0
    /\ bsLow = 0 /\ bsHigh = 0 /\ bsTestHigh = 0 /\ bsMaxTests = 0
    /\ bsIterations = 0
    /\ bsPc = "idle"
    /\ bsResult = NullPoint
    /\ bsTests = << >>
    /\ bsHigh0 = 0
    /\ bsReach = {} /\ bsUnreach = {}

\* the call the ray-casting sampler makes for one of its rays
bsInit ==
    /\ bsRobot \in Robots
    /\ bsOrigin = FindWorkspaceOrigin(bsRobot)
    /\ \E n \in 1..MaxRays, i \in 1..MaxRays :
          i <= n /\ bsDirection = GenerateSphericalRays(n)[i]
    /\ bsRMax = EstimateMaxReach(bsRobot)
    /\ \E o \in WsOptions : bsEpsilon = o[1] /\ bsMaxIK = o[2]
    /\ bsLow = 0 /\ bsHigh = bsRMax /\ bsTestHigh = 0 /\ bsMaxTests = 0
    /\ bsIterations = 0
    /\ bsPc = "origin"
    /\ bsResult = NullPoint
    /\ bsTests = << >>
    /\ bsHigh0 = 0
    /\ bsReach = {} /\ bsUnreach = {}

\* the test of the origin, and the locals of the doubling loop
BsOrigin ==
    /\ bsPc = "origin"
    /\ IF ~IsReachable(bsRobot, bsOrigin, bsMaxIK)
       THEN /\ bsPc' = "done"
            /\ UNCHANGED << bsTestHigh, bsMaxTests >>
       ELSE /\ bsPc' = "double"
            /\ bsTestHigh' = bsRMax
            /\ bsMaxTests' = MaxTests
    /\ UNCHANGED << bsRobot, bsOrigin, bsDirection, bsRMax, bsEpsilon,
                    bsMaxIK, bsLow, bsHigh, bsIterations, bsResult, bsTests,
                    bsHigh0, bsReach, bsUnreach >>
    /\ UNCHANGED bsOthers

\* one pass of the doubling loop
BsDouble ==
    /\ bsPc = "double"
    /\ \E reachable \in { IsReachable(bsRobot,
                             PointAt(bsOrigin, bsDirection, bsTestHigh),
                             bsMaxIK) } :
          \E r \in { DoubleStep(bsTestHigh, bsMaxTests, bsHigh, reachable) } :
             /\ bsTestHigh' = r.testHigh
             /\ bsMaxTests' = r.maxTests
             /\ bsHigh' = r.high
             /\ bsPc' = IF r.exit THEN "bisect" ELSE "double"
             /\ bsHigh0' = IF r.exit THEN r.high ELSE bsHigh0
             /\ bsTests' = Append(bsTests, [r |-> bsTestHigh,
                                            reachable |-> reachable])
    /\ UNCHANGED << bsRobot, bsOrigin, bsDirection, bsRMax, bsEpsilon,
                    bsMaxIK, bsLow, bsIterations, bsResult, bsReach,
                    bsUnreach >>
    /\ UNCHANGED bsOthers

\* one pass of the bisection loop
BsBisect ==
    /\ bsPc = "bisect"
    /\ bsHigh - bsLow > bsEpsilon /\ bsIterations < MaxBisections
    /\ \E mid \in { (bsLow + bsHigh) \div 2 } :
          \E reachable \in { IsReachable(bsRobot,
                                PointAt(bsOrigin, bsDirection, mid),
                                bsMaxIK) } :
             \E r \in { BisectStep(bsLow, bsHigh, mid, reachable) } :
                /\ bsLow' = r.low
                /\ bsHigh' = r.high
                /\ bsReach' = IF reachable THEN bsReach \cup { mid }
                              ELSE bsReach
                /\ bsUnreach' = IF reachable THEN bsUnreach
                                ELSE bsUnreach \cup { mid }
    /\ bsIterations' = bsIterations + 1
    /\ UNCHANGED << bsRobot, bsOrigin, bsDirection, bsRMax, bsEpsilon,
                    bsMaxIK, bsTestHigh, bsMaxTests, bsPc, bsResult, bsTests,
                    bsHigh0 >>
    /\ UNCHANGED bsOthers

\* the return statement after the bisection loop
BsReturn ==
    /\ bsPc = "bisect"
    /\ ~(bsHigh - bsLow > bsEpsilon /\ bsIterations < MaxBisections)
    /\ bsPc' = "done"
    /\ bsResult' = APoint(PointAt(bsOrigin, bsDirection, bsLow))
    /\ UNCHANGED << bsRobot, bsOrigin, bsDirection, bsRMax, bsEpsilon,
                    bsMaxIK, bsLow, bsHigh, bsTestHigh, bsMaxTests,
                    bsIterations, bsTests, bsHigh0, bsReach, bsUnreach >>
    /\ UNCHANGED bsOthers

-----------------------------------------------------------------------------
(* throttleAsync, one call or one settlement per step *)

NoStart == [some |-> FALSE, at |-> 0, promise |-> NoPromise]

NoAsyncCall ==
    [some |-> FALSE, at |-> 0, started |-> FALSE, returned |-> NoPromise,
     window |-> NoStart, settled |-> FALSE]

taIdle ==
    /\ taWait = 0
    /\ taNow = 0
    /\ taLastCall = 0
    /\ taPromise = NoPromise
    /\ taPending = {}
    /\ taStarted = 0
    /\ taOpened = NoStart
    /\ taLast = NoAsyncCall

\* throttleAsync(func, wait), made when the clock is more than wait past its
\* zero
taInit ==
    /\ taWait \in 1..MaxWait
    /\ taNow = taWait + 1
    /\ taLastCall = 0
    /\ taPromise = NoPromise
    /\ taPending = {}
    /\ taStarted = 0
    /\ taOpened = NoStart
    /\ taLast = NoAsyncCall

\* time passes
TaTick ==
    /\ taNow < MaxThrottleTime
    /\ taNow' = taNow + 1
    /\ UNCHANGED << taWait, taLastCall, taPromise, taPending, taStarted,
                    taOpened, taLast >>
    /\ UNCHANGED taOthers

\* the wrapper is called
TaCall ==
    /\ taStarted < MaxStarts
    /\ \E r \in { ThrottleAsyncCall(taLastCall, taPromise, taNow, taWait,
                                    taStarted + 1) } :
          /\ taLastCall' = r.lastCall
          /\ taPromise' = r.promise
          /\ taLast' = [some |-> TRUE, at |-> taNow, started |-> r.started,
                        returned |-> r.returned, window |-> taOpened,
                        settled |-> /\ taOpened.some
                                    /\ taOpened.promise.id \notin taPending]
          /\ IF r.started
             THEN /\ taPending' = taPending \cup { taStarted + 1 }
                  /\ taStarted' = taStarted + 1
                  /\ taOpened' = [some |-> TRUE, at |-> taNow,
                                  promise |-> r.promise]
             ELSE UNCHANGED << taPending, taStarted, taOpened >>
    /\ UNCHANGED << taWait, taNow >>
    /\ UNCHANGED taOthers

\* the promise of an invocation of func settles and the `finally` of the
\* invocation's wrapper runs: promise = null
TaSettle ==
    /\ \E id \in taPending : taPending' = taPending \ { id }
    /\ taPromise' = NoPromise
    /\ UNCHANGED << taWait, taNow, taLastCall, taStarted, taOpened, taLast >>
    /\ UNCHANGED taOthers

-----------------------------------------------------------------------------
(* debounceAsync, one call, one timer callback or one settlement per step *)

NoDebounceAsyncCall ==
    [some |-> FALSE, returned |-> NoPromise, made |-> FALSE,
     timerWasSet |-> FALSE]

daIdle ==
    /\ daWait = 0
    /\ daNow = 0
    /\ daTimer = NoTimer
    /\ daPromise = NoPromise
    /\ daRunning = FALSE
    /\ daMade = 0
    /\ daCalls = 0
    /\ daUnsettled = {}
    /\ daLast = NoDebounceAsyncCall

\* debounceAsync(func, wait)
daInit ==
    /\ daWait \in 1..MaxWait
    /\ daNow = 0
    /\ daTimer = NoTimer
    /\ daPromise = NoPromise
    /\ daRunning = FALSE
    /\ daMade = 0
    /\ daCalls = 0
    /\ daUnsettled = {}
    /\ daLast = NoDebounceAsyncCall

\* time passes
DaTick ==
    /\ daNow < MaxDebounceTime
    /\ daNow' = daNow + 1
    /\ UNCHANGED << daWait, daTimer, daPromise, daRunning, daMade, daCalls,
                    daUnsettled, daLast >>
    /\ UNCHANGED daOthers

\* the wrapper is called, at a time from which the clock still reaches the
\* end of the delay
DaCall ==
    /\ daCalls < MaxStarts
    /\ daNow + daWait <= MaxDebounceTime
    /\ \E args \in DebounceArgs :
          \E r \in { DebounceAsyncCall(daTimer, daPromise, args, daNow,
                                       daWait, daMade + 1) } :
             /\ daTimer' = r.timer
             /\ daPromise' = r.promise
             /\ daMade' = IF r.made THEN daMade + 1 ELSE daMade
             /\ daUnsettled' = daUnsettled \cup { r.promise.id }
             /\ daLast' = [some |-> TRUE, returned |-> r.promise,
                           made |-> r.made, timerWasSet |-> daTimer.set]
    /\ daCalls' = daCalls + 1
    /\ UNCHANGED << daWait, daNow, daRunning >>
    /\ UNCHANGED daOthers

\* the callback of the timer runs up to its await: timeout = null, func is
\* started
DaFire ==
    /\ TimerDue(daTimer, daNow)
    /\ daTimer' = NoTimer
    /\ daRunning' = TRUE
    /\ UNCHANGED << daWait, daNow, daPromise, daMade, daCalls, daUnsettled,
                    daLast >>
    /\ UNCHANGED daOthers

\* the promise of func settles: the promise of the wrapper is resolved or
\* rejected, and promise = null
DaSettle ==
    /\ daRunning
    /\ daRunning' = FALSE
    /\ daUnsettled' = daUnsettled \ { daPromise.id }
    /\ daPromise' = NoPromise
    /\ UNCHANGED << daWait, daNow, daTimer, daMade, daCalls, daLast >>
    /\ UNCHANGED daOthers

-----------------------------------------------------------------------------
(* useAnimation, one call or one frame callback per step *)

anIdle ==
    /\ anNow = 0
    /\ anPending = {}
    /\ anHandles = 0
    /\ anRef = NoFrame
    /\ anTime = 0
    /\ anIsAnimating = FALSE
    /\ anLastTime = 0
    /\ anSpeed = 0
    /\ anMounted = FALSE
    /\ anRestarted = FALSE
    /\ anHalted = FALSE
    /\ anSetSince = FALSE

\* the first render of the component
anInit ==
    /\ anNow = 0
    /\ anPending = {}
    /\ anHandles = 0
    /\ anRef = NoFrame
    /\ anTime = 0
    /\ anIsAnimating = FALSE
    /\ anLastTime = 0
    /\ anSpeed \in AnimSpeeds
    /\ anMounted = TRUE
    /\ anRestarted = FALSE
    /\ anHalted = FALSE
    /\ anSetSince = FALSE

\* time passes
AnTick ==
    /\ anNow < MaxAnimTime
    /\ anNow' = anNow + 1
    /\ UNCHANGED << anPending, anHandles, anRef, anTime, anIsAnimating,
                    anLastTime, anSpeed, anMounted, anRestarted, anHalted,
                    anSetSince >>
    /\ UNCHANGED anOthers

\* startAnimation(config) of a render without robotInfo, which returns, or
\* of one with robotInfo
AnStart ==
    /\ anHandles < MaxFrames
    /\ \E robotInfo \in BOOLEAN, speed \in AnimSpeeds :
          IF ~robotInfo
          THEN UNCHANGED << anPending, anHandles, anRef, anIsAnimating,
                            anLastTime, anSpeed, anRestarted, anHalted,
                            anSetSince >>
          ELSE \E r \in { StartAnimation(anPending, anRef, anHandles) } :
                  /\ anPending' = r.pending
                  /\ anRef' = r.handle
                  /\ anHandles' = r.handle
                  /\ anIsAnimating' = TRUE
                  /\ anLastTime' = anNow
                  /\ anSpeed' = speed
                  /\ anRestarted' = (anRestarted \/ anPending # {})
                  /\ anHalted' = FALSE
                  /\ anSetSince' = FALSE
    /\ UNCHANGED << anNow, anTime, anMounted >>
    /\ UNCHANGED anOthers

\* the browser runs a pending frame: animate(time)
AnFrame ==
    /\ anHandles < MaxFrames
    /\ \E handle \in anPending :
          IF ~anIsAnimating
          THEN /\ anPending' = anPending \ { handle }
               /\ UNCHANGED << anHandles, anRef, anTime, anLastTime,
                               anSetSince >>
          ELSE \E r \in { RequestAnimationFrame(anPending \ { handle },
                                                anHandles) } :
                  /\ anTime' = anTime + (anNow - anLastTime) * anSpeed
                  /\ anLastTime' = anNow
                  /\ anSetSince' = TRUE
                  /\ anPending' = r.pending
                  /\ anRef' = r.handle
                  /\ anHandles' = r.handle
    /\ UNCHANGED << anNow, anIsAnimating, anSpeed, anMounted, anRestarted,
                    anHalted >>
    /\ UNCHANGED anOthers

\* stopAnimation()
AnStop ==
    /\ anIsAnimating' = FALSE
    /\ anTime' = 0
    /\ anPending' = CancelCurrent(anPending, anRef)
    /\ anHalted' = TRUE
    /\ anSetSince' = FALSE
    /\ UNCHANGED << anNow, anHandles, anRef, anLastTime, anSpeed,
                    anMounted, anRestarted >>
    /\ UNCHANGED anOthers

\* pauseAnimation()
AnPause ==
    /\ anIsAnimating' = FALSE
    /\ anPending' = CancelCurrent(anPending, anRef)
    /\ anHalted' = TRUE
    /\ anSetSince' = FALSE
    /\ UNCHANGED << anNow, anHandles, anRef, anTime, anLastTime, anSpeed,
                    anMounted, anRestarted >>
    /\ UNCHANGED anOthers

\* the cleanup of the effect, at unmount
AnUnmount ==
    /\ anMounted
    /\ anMounted' = FALSE
    /\ anIsAnimating' = FALSE
    /\ anPending' = CancelCurrent(anPending, anRef)
    /\ anHalted' = TRUE
    /\ anSetSince' = FALSE
    /\ UNCHANGED << anNow, anHandles, anRef, anTime, anLastTime, anSpeed,
                    anRestarted >>
    /\ UNCHANGED anOthers

-----------------------------------------------------------------------------
(* Specifications *)

InitIK == ikInit /\ tqIdle /\ wsIdle /\ hullIdle /\ apiIdle
       /\ cacheIdle /\ dbIdle /\ thIdle /\ stIdle /\ bsIdle /\ taIdle
       /\ daIdle /\ anIdle
NextIK == IKIterate \/ IKReturn
SpecIK == InitIK /\ [][NextIK]_vars

InitTorque == tqInit /\ ikIdle /\ wsIdle /\ hullIdle /\ apiIdle
           /\ cacheIdle /\ dbIdle /\ thIdle /\ stIdle /\ bsIdle
           /\ taIdle /\ daIdle /\ anIdle
NextTorque == TqCorner \/ TqGrid \/ TqPattern \/ TqReturn \/ TqCallAgain
SpecTorque == InitTorque /\ [][NextTorque]_vars

InitWorkspace == wsInit /\ ikIdle /\ tqIdle /\ hullIdle /\ apiIdle
              /\ cacheIdle /\ dbIdle /\ thIdle /\ stIdle /\ bsIdle
              /\ taIdle /\ daIdle /\ anIdle
NextWorkspace == WsRay \/ WsReturn
SpecWorkspace == InitWorkspace /\ [][NextWorkspace]_vars

InitHull == hullInit /\ ikIdle /\ tqIdle /\ wsIdle /\ apiIdle
         /\ cacheIdle /\ dbIdle /\ thIdle /\ stIdle /\ bsIdle
         /\ taIdle /\ daIdle /\ anIdle
NextHull == HullStart \/ HullExpand \/ HullExtract
SpecHull == InitHull /\ [][NextHull]_vars

InitApi == apiInit /\ ikIdle /\ tqIdle /\ wsIdle /\ hullIdle
        /\ cacheIdle /\ dbIdle /\ thIdle /\ stIdle /\ bsIdle /\ taIdle
        /\ daIdle /\ anIdle
NextApi == LoadWasmModel \/ Compute
SpecApi == InitApi /\ [][NextApi]_vars

InitCache == cacheInit /\ ikIdle /\ tqIdle /\ wsIdle /\ hullIdle
          /\ apiIdle /\ dbIdle /\ thIdle /\ stIdle /\ bsIdle /\ taIdle
          /\ daIdle /\ anIdle
NextCache ==
    \/ CacheTick \/ CacheGetCall \/ CacheSetCall \/ CacheDelete \/ CacheClear
    \/ CacheGetOrSet \/ CacheComputed
SpecCache == InitCache /\ [][NextCache]_vars

InitDebounce == dbInit /\ ikIdle /\ tqIdle /\ wsIdle /\ hullIdle
             /\ apiIdle /\ cacheIdle /\ thIdle /\ stIdle /\ bsIdle
             /\ taIdle /\ daIdle /\ anIdle
NextDebounce == DbTick \/ DbCall \/ DbFire
SpecDebounce == InitDebounce /\ [][NextDebounce]_vars

InitThrottle == thInit /\ ikIdle /\ tqIdle /\ wsIdle /\ hullIdle
             /\ apiIdle /\ cacheIdle /\ dbIdle /\ stIdle /\ bsIdle
             /\ taIdle /\ daIdle /\ anIdle
NextThrottle == ThTick \/ ThCall \/ ThFire
SpecThrottle == InitThrottle /\ [][NextThrottle]_vars

InitStore == stInit /\ ikIdle /\ tqIdle /\ wsIdle /\ hullIdle
          /\ apiIdle /\ cacheIdle /\ dbIdle /\ thIdle /\ bsIdle
          /\ taIdle /\ daIdle /\ anIdle
NextStore ==
    \/ SetSession \/ ClearSession \/ SetJointPositions \/ SetJointVelocities
    \/ SetAnimating \/ UpdateComputedData \/ ClearComputedData
    \/ SetWorkspaceData \/ ClearWorkspaceData \/ ToggleWorkspaceVisibility
    \/ SetWorkspaceColor \/ SetWorkspacePointSize
SpecStore == InitStore /\ [][NextStore]_vars

InitSearch == bsInit /\ ikIdle /\ tqIdle /\ wsIdle /\ hullIdle
           /\ apiIdle /\ cacheIdle /\ dbIdle /\ thIdle /\ stIdle
           /\ taIdle /\ daIdle /\ anIdle
NextSearch == BsOrigin \/ BsDouble \/ BsBisect \/ BsReturn
SpecSearch == InitSearch /\ [][NextSearch]_vars

InitThrottleAsync == taInit /\ ikIdle /\ tqIdle /\ wsIdle
                  /\ hullIdle /\ apiIdle /\ cacheIdle /\ dbIdle
                  /\ thIdle /\ stIdle /\ bsIdle /\ daIdle /\ anIdle
NextThrottleAsync == TaTick \/ TaCall \/ TaSettle
SpecThrottleAsync == InitThrottleAsync /\ [][NextThrottleAsync]_vars

InitDebounceAsync == daInit /\ ikIdle /\ tqIdle /\ wsIdle
                  /\ hullIdle /\ apiIdle /\ cacheIdle /\ dbIdle
                  /\ thIdle /\ stIdle /\ bsIdle /\ taIdle /\ anIdle
NextDebounceAsync == DaTick \/ DaCall \/ DaFire \/ DaSettle
SpecDebounceAsync == InitDebounceAsync /\ [][NextDebounceAsync]_vars

\* the event loop runs a timer callback that is due, a pending func settles,
\* and the clock goes on; nothing obliges the program to call the wrapper
FairDebounceAsync ==
    /\ SpecDebounceAsync
    /\ WF_vars(DaTick) /\ WF_vars(DaFire) /\ WF_vars(DaSettle)

InitAnimation == anInit /\ ikIdle /\ tqIdle /\ wsIdle /\ hullIdle
              /\ apiIdle /\ cacheIdle /\ dbIdle /\ thIdle /\ stIdle
              /\ bsIdle /\ taIdle /\ daIdle
NextAnimation ==
    AnTick \/ AnStart \/ AnFrame \/ AnStop \/ AnPause \/ AnUnmount
SpecAnimation == InitAnimation /\ [][NextAnimation]_vars

Init ==
    InitIK \/ InitTorque \/ InitWorkspace \/ InitHull \/ InitApi \/ InitCache
    \/ InitDebounce
    \/ InitThrottle
    \/ InitStore
    \/ InitSearch
    \/ InitThrottleAsync
    \/ InitDebounceAsync
    \/ InitAnimation

Next ==
    NextIK \/ NextTorque \/ NextWorkspace \/ NextHull \/ NextApi \/ NextCache
    \/ NextDebounce
    \/ NextThrottle
    \/ NextStore
    \/ NextSearch
    \/ NextThrottleAsync
    \/ NextDebounceAsync
    \/ NextAnimation

Spec == Init /\ [][Next]_vars

-----------------------------------------------------------------------------
(* Properties *)

\* C1: for every call of sampleMaxTorques and every joint j, the returned
\* max_torques[j] is at least |current_gravity_torques[j]|.
CexC1 ==
    tqPhase = "done" =>
        \A j \in 1..Len(tqPositions) :
            tqResult.max_torques[j] >= Abs(tqResult.current_gravity_torques[j])

\* C2: whenever solveInverseKinematics returns converged = true, the returned
\* positions are the configuration at which the last error was measured, the
\* end effector at the returned positions is within the tolerance of the
\* target, and final_error is below the tolerance.
ThmC2 ==
    (ikPc = "done" /\ ikSolver = "full" /\ ikResult.converged) =>
        /\ ikResult.positions = ikMeasuredQ
        /\ FLt(ikResult.final_error, Fin(Tol))
        /\ FLt(Norm3(ErrorVec(ikRobot, ikResult.positions, ikTarget)), Fin(Tol))

\* a converged solve that moved q at least twice before the last measurement
WitC2 ==
    /\ ikPc = "done" /\ ikSolver = "full" /\ ikResult.converged
    /\ ikResult.iterations >= 2

\* C3: an IK solve (either solver) returns final_error = +Infinity only if no
\* error was measured; otherwise it returns the last error measured.
CexC3 ==
    ikPc = "done" =>
        /\ ikResult.final_error = PosInf => ikEvals = 0
        /\ ikEvals > 0 => ikResult.final_error = ikLastErr

\* C4: in solveInverseKinematics a non-finite joint update is never applied:
\* the loop breaks at once with converged = false and the returned q is finite.
CexC4 ==
    (ikPc = "done" /\ ikSolver = "full") =>
        /\ AllFinite(ikResult.positions)
        /\ (ikEvals > 0 /\ ~ikLastErr.fin) =>
              (~ikResult.converged /\ ikResult.iterations = ikEvals - 1)

\* C5: solveInverseKinematics returns iterations <= maxIterations, with
\* iterations < maxIterations only when converged; when no measured error was
\* within the tolerance it ran exactly maxIterations iterations and returns
\* converged = false and iterations = maxIterations.
ThmC5 ==
    (ikPc = "done" /\ ikSolver = "full") =>
        /\ ikResult.iterations <= ikMaxIter
        /\ ikResult.iterations < ikMaxIter => ikResult.converged
        /\ (ikEvals = 0 \/ ~FLt(ikLastErr, Fin(Tol))) =>
              /\ ~ikResult.converged
              /\ ikResult.iterations = ikMaxIter
              /\ ikEvals = ikMaxIter

\* an unreachable target: every iteration ran, q stayed finite
WitC5 ==
    /\ ikPc = "done" /\ ikSolver = "full" /\ ~ikResult.converged
    /\ ikMaxIter >= 3 /\ ikResult.iterations = ikMaxIter
    /\ AllFinite(ikResult.positions)
    /\ ikResult.positions # ikMeasuredQ

\* C6: the returned boundingBox contains the workspace origin.
CexC6 ==
    wsPc = "done" =>
        \A k \in 1..3 :
            /\ FLe(wsResult.boundingBox.min[k], wsOrigin[k])
            /\ FLe(wsOrigin[k], wsResult.boundingBox.max[k])

\* C7: once the caller has asked for cancellation, after k rays, the sampler
\* processes no further ray: what it returns is collected from those k rays.
CexC7 == wsCancelled => wsI = wsCancelAt

\* C8: the progress callback is called once per ray, after the ray's search
\* and before the next ray, with current = 1, 2, ..., total = numRays, and
\* with the boundary point exactly when the ray produced one.
ThmC8 ==
    /\ Len(wsProgress) = wsI
    /\ Len(wsBoundary) = wsI
    /\ \A k \in 1..Len(wsProgress) :
          /\ wsProgress[k].current = k
          /\ wsProgress[k].total = wsNumRays
          /\ wsProgress[k].point = wsBoundary[k]
    /\ Len(SelectSeq(wsProgress, LAMBDA c : ~c.point.null)) = Len(wsPoints)
    /\ wsPc = "done" => Len(wsProgress) = wsNumRays

\* all rays of a three-ray call reported, the last one with its point
WitC8 ==
    /\ wsPc = "done" /\ wsNumRays = 3 /\ Len(wsProgress) = 3
    /\ ~wsProgress[3].point.null

\* the least (greatest) coordinate k over the points: +Infinity (-Infinity)
\* for no points, NaN when a coordinate is NaN, as Math.min and Math.max
MinOver(points, k) ==
    IF \E n \in 1..Len(points) : IsNaN(points[n][k]) THEN NaN
    ELSE IF \E n \in 1..Len(points) :
               \A m \in 1..Len(points) : FLe(points[n][k], points[m][k])
    THEN points[CHOOSE n \in 1..Len(points) :
               \A m \in 1..Len(points) : FLe(points[n][k], points[m][k])][k]
    ELSE PosInf

MaxOver(points, k) ==
    IF \E n \in 1..Len(points) : IsNaN(points[n][k]) THEN NaN
    ELSE IF \E n \in 1..Len(points) :
               \A m \in 1..Len(points) : FLe(points[m][k], points[n][k])
    THEN points[CHOOSE n \in 1..Len(points) :
               \A m \in 1..Len(points) : FLe(points[m][k], points[n][k])][k]
    ELSE NegInf

\* the non-null results of the boundary searches, in ray order
Accepted == SelectSeq(wsBoundary, LAMBDA b : ~b.null)

\* C9: on return, points are the non-null boundary points in ray order,
\* pointCount = numSamples = raysProcessed = their number, successRate is
\* that number over numRays, boundingBox is the componentwise minimum and
\* maximum over points.
CexC9 ==
    wsPc = "done" =>
        /\ wsResult.points = [n \in 1..Len(Accepted) |-> Accepted[n].p]
        /\ wsResult.pointCount = Len(Accepted)
        /\ wsResult.numSamples = Len(Accepted)
        /\ wsResult.raysProcessed = Len(Accepted)
        /\ wsResult.successRate = SuccessRate(Len(Accepted), wsNumRays)
        /\ \A k \in 1..3 :
              /\ wsResult.boundingBox.min[k] = MinOver(wsResult.points, k)
              /\ wsResult.boundingBox.max[k] = MaxOver(wsResult.points, k)

\* C10: two calls of sampleMaxTorques with identical arguments return
\* identical maxima and an identical recorded configuration.
CexC10 ==
    (tqPhase = "done" /\ tqCall = 2) =>
        /\ tqResult.max_torques = tqFirst.max_torques
        /\ tqResult.maxTorqueConfig = tqFirst.maxTorqueConfig

\* C11: the returned maxTorqueConfig achieves the returned maxima: for each
\* joint j the torque magnitude evaluated at maxTorqueConfig, with the call's
\* velocity and acceleration, equals max_torques[j].
CexC11 ==
    tqPhase = "done" =>
        \A j \in 1..Len(tqPositions) :
            Abs(Rnea(tqRobot, tqResult.maxTorqueConfig, tqVel, tqAcc)[j])
                = tqResult.max_torques[j]

\* the index of the grid sample that q_sample holds, when it holds one
LastGridIndex ==
    IF tqPhase = "grid" THEN tqI - 1 ELSE GridSamples - 1

\* C12: every sample i of the grid phase lies, for every joint j, in stratum
\* s = floor(i / 30) of the joint range:
\* lower + s * step <= q_j < lower + (s + 1) * step, step = (upper - lower) / 10.
CexC12 ==
    ((tqPhase = "grid" /\ tqI > 0) \/ (tqPhase = "patterns" /\ tqI = 0)) =>
        \A j \in 1..Len(tqPositions) :
            LET lower == LowerOf(tqRobot, j)
                step == (UpperOf(tqRobot, j) - lower) \div Strata
                st == LastGridIndex \div (GridSamples \div Strata)
            IN /\ lower + st * step <= tqSample[j]
               /\ tqSample[j] < lower + (st + 1) * step

\* vertex i (from 0) of the returned mesh
MeshVertex(i) ==
    << hullResult.vertices[3 * i + 1], hullResult.vertices[3 * i + 2],
       hullResult.vertices[3 * i + 3] >>

\* the number of vertices / triangles of the returned mesh
MeshVertexCount == Len(hullResult.vertices) \div 3

MeshTriangleCount == Len(hullResult.faces) \div 3

\* C13: every triangle of a mesh returned for at least 4 points is oriented
\* outward: no returned vertex lies in front of the triangle's plane, the
\* front being the side its winding normal points to.
CexC13 ==
    (hullPc = "done" /\ Len(hullPoints) >= 4) =>
        \A t \in 0..(MeshTriangleCount - 1) :
            LET a == MeshVertex(hullResult.faces[3 * t + 1])
                b == MeshVertex(hullResult.faces[3 * t + 2])
                c == MeshVertex(hullResult.faces[3 * t + 3])
                n == Vec3Cross(Vec3Sub(b, a), Vec3Sub(c, a))
            IN \A v \in 0..(MeshVertexCount - 1) :
                  Vec3Dot(Vec3Sub(MeshVertex(v), a), n) <= 0

\* C14: for the 8 corners of the unit cube, in any order, the returned mesh
\* has exactly 8 vertices, the corners, and 12 triangles (36 face indices).
CexC14 ==
    (hullPc = "done" /\ hullPoints \in CubeOrders) =>
        /\ Len(hullResult.vertices) = 24
        /\ Len(hullResult.faces) = 36
        /\ { MeshVertex(v) : v \in 0..(MeshVertexCount - 1) }
              = { CubeCorners[k] : k \in 1..8 }

\* the input or the expanded hull is degenerate: fewer than 4 distinct
\* extreme indices, no faces, fewer than 4 vertices or fewer than 4 face
\* indices
Degenerate ==
    \/ Len(UniqueExtremes(hullPoints)) < 4
    \/ Len(hullFaces) = 0
    \/ Cardinality({ hullFaces[f].vertices[k] :
                        f \in 1..Len(hullFaces), k \in 1..3 }) < 4
    \/ 3 * Len(hullFaces) < 4

\* C15: for 4 or more points, a degenerate input or hull gives the
\* axis-aligned bounding box of the points as 8 vertices and 12 triangles,
\* and no returned mesh is empty or cut short: it has at least 4 vertices,
\* whole triangles, and every face index names a returned vertex.
ThmC15 ==
    (hullPc = "done" /\ Len(hullPoints) >= 4) =>
        /\ Degenerate =>
              /\ hullResult = BoundingBoxFallback(hullPoints)
              /\ Len(hullResult.vertices) = 24
              /\ Len(hullResult.faces) = 36
              /\ \A k \in 1..3 :
                    /\ MeshVertex(0)[k] = MinCoord(hullPoints, k)
                    /\ MeshVertex(6)[k] = MaxCoord(hullPoints, k)
        /\ Len(hullResult.vertices) >= 12
        /\ Len(hullResult.vertices) % 3 = 0
        /\ Len(hullResult.faces) >= 4
        /\ Len(hullResult.faces) % 3 = 0
        /\ \A k \in 1..Len(hullResult.faces) :
              hullResult.faces[k] \in 0..(MeshVertexCount - 1)

\* a hull with 4 distinct extremes that lost all its faces in the expansion
WitC15 ==
    /\ hullPc = "done" /\ Len(hullPoints) >= 4
    /\ Len(UniqueExtremes(hullPoints)) >= 4
    /\ hullIter > 0 /\ Len(hullFaces) = 0
    /\ hullResult = BoundingBoxFallback(hullPoints)

\* p = origin + low * direction for some low >= 0.  The radius is looked
\* for around the quotient along the largest component of the direction; a
\* direction that is not finite gives the same point for every radius.
OnRay(origin, direction, p) ==
    IF ~AllFinite(direction) THEN p = PointAt(origin, direction, 0)
    ELSE /\ AllFinite(p)
         /\ LET k == CHOOSE i \in 1..3 :
                        \A m \in 1..3 : Abs(direction[i].v) >= Abs(direction[m].v)
                d == direction[k].v
                est == MulDivRound(p[k].v - origin[k].v,
                                   IF d < 0 THEN -DirScale ELSE DirScale, Abs(d))
            IN \E low \in (est - 2)..(est + 2) :
                  /\ low >= 0
                  /\ p = PointAt(origin, direction, low)

\* C16: binarySearchBoundary returns null exactly when the origin is not
\* reachable by the IK test and otherwise a point origin + low * direction
\* with low >= 0; an IK test that fails shows only as such a result: every
\* ray of the call gets its result and the call returns.
ThmC16 ==
    /\ Len(wsBoundary) = wsI
    /\ wsPc = "done" => Len(wsBoundary) = wsNumRays
    /\ \A k \in 1..Len(wsBoundary) :
          /\ wsBoundary[k].null <=> ~IsReachable(wsRobot, wsOrigin, wsMaxIK)
          /\ ~wsBoundary[k].null => OnRay(wsOrigin, wsRays[k], wsBoundary[k].p)

\* a call that returned with a first ray whose boundary is away from the
\* origin
WitC16 ==
    /\ wsPc = "done" /\ Len(wsBoundary) >= 2
    /\ ~wsBoundary[1].null
    /\ AllFinite(wsBoundary[1].p)
    /\ wsBoundary[1].p # wsOrigin

\* C17: until loadWasmModel has been called, every compute method is
\* rejected with "WASM not initialized" and the engine is not called; after
\* any sequence of loadWasmModel calls, pin, model and data are set and data
\* is the Data constructed from the model of the most recent call.
ThmC17 ==
    /\ apiLoaded = << >> =>
          /\ ~apiEngine
          /\ apiLast.outcome \in { "none", "WASM not initialized" }
          /\ apiLast.method \in Methods => apiRejected
    /\ apiLoaded # << >> =>
          LET last == apiLoaded[Len(apiLoaded)]
          IN /\ apiService.pin = last.pin
             /\ apiService.model = last.model
             /\ apiService.pin # NullRef /\ apiService.model # NullRef
             /\ apiService.data # NullData
             /\ apiService.data = NewData(last.model, Len(apiLoaded))

WitC17 ==
    /\ apiRejected
    /\ Len(apiLoaded) >= 2
    /\ apiLoaded[1].model # apiLoaded[2].model
    /\ apiLast.outcome = "engine"

\* the least recently used of the keys the cache holds
Lru(held, use) ==
    use[CHOOSE i \in 1..Len(use) :
           /\ use[i] \in KeysOf(held)
           /\ \A j \in 1..(i - 1) : use[j] \notin KeysOf(held)]

\* C18: when set inserts a new key while the cache holds maxSize entries,
\* the single entry removed is the least recently used one, a successful
\* get and a set of a key both counting as a use of that key.
CexC18 ==
    [][ (KeysOf(cache') \ KeysOf(cache) # {} /\ Len(cache) = cacheMaxSize)
           => KeysOf(cache) \ KeysOf(cache') = { Lru(cache, cacheUse) } ]_vars

\* C19: get(key) returns the stored value if and only if the entry exists
\* and the time since it was set is at most its ttl (the one given to set,
\* or the default one); a get that finds an expired entry removes it and
\* returns null, and the key stays absent until it is set again.
ThmC19 ==
    /\ cacheLast.key # NullRef =>
          LET w == cacheLast.written
              ttl == IF w.ttl.def THEN w.ttl.v ELSE cacheDefaultTTL
              fresh == cacheLast.existed /\ cacheNow - w.at <= ttl
          IN /\ cacheLast.existed => w.set
             /\ fresh => cacheLast.result = w.data
             /\ ~fresh => cacheLast.result = NullRef
             /\ cacheLast.existed /\ ~fresh
                   => cacheLast.key \notin KeysOf(cache)
    /\ \A k \in cacheExpired : k \notin KeysOf(cache)

WitC19 ==
    /\ cacheExpired # {}
    /\ cacheLast.key # NullRef
    /\ cacheLast.result # NullRef
    /\ cacheLast.written.ttl = Null
    /\ cacheNow - cacheLast.written.at = cacheDefaultTTL

\* the one invocation of a burst was made with the arguments of its last
\* call, and not earlier than wait after that call
InvokedAsLast(burst) ==
    /\ burst.invArgs = burst.lastArgs
    /\ burst.invAt >= burst.lastAt + dbWait

\* C20, as stated: every burst of calls in which consecutive calls are less
\* than wait apart produces exactly one invocation of func, with the
\* arguments of the last call of the burst and never earlier than wait after
\* that call.  (A burst is over when a call opens the next one.)
CexC20 ==
    /\ dbBurst.invoked <= 1
    /\ dbBurst.invoked = 1 => InvokedAsLast(dbBurst)
    /\ dbPrev.exists => dbPrev.invoked = 1 /\ InvokedAsLast(dbPrev)

\* C20, amended: func is invoked only when wait has passed since the last
\* call, with the arguments of that call, and at most once per burst; a
\* burst has been invoked once its timer is no longer pending, unless the
\* next call arrived before the timer callback ran, in which case the burst
\* has no invocation of its own.
ThmC20 ==
    /\ dbBurst.invoked <= 1
    /\ dbBurst.invoked = 1 => InvokedAsLast(dbBurst)
    /\ dbBurst.exists => (dbBurst.invoked = 1 <=> ~dbTimeout.set)
    /\ ~dbBurst.exists => ~dbTimeout.set
    /\ dbPrev.exists =>
          /\ dbPrev.invoked <= 1
          /\ dbPrev.invoked = 1 => InvokedAsLast(dbPrev)
          /\ dbNow >= dbPrev.lastAt + dbWait

WitC20 ==
    /\ dbPrev.exists /\ dbPrev.invoked = 1
    /\ dbBurst.invoked = 1
    /\ dbBurst.firstArgs # dbBurst.lastArgs

\* C21: any two invocations of func by a wrapper made by throttle(func,
\* wait) are at least wait apart (it is enough that every invocation is at
\* least wait after the one before it).
ThmC21 ==
    /\ thBefore.some => thLast.some /\ thLast.at - thBefore.at >= thWait
    /\ thLast.some => thPrevious = thLast.at

WitC21 ==
    /\ thBefore.some
    /\ thLast.at - thBefore.at = thWait
    /\ thTimeout.set

\* C22: from any reachable state of the store, clearSession leaves sessionId
\* and robotInfo null, jointPositions and jointVelocities empty, isAnimating
\* false, computedData empty, and no data computed for the previous robot
\* (the workspace points and the time they were computed) in the store.
CexC22 ==
    storeCleared =>
       /\ store.sessionId = NullRef
       /\ store.robotInfo = NoRobotInfo
       /\ store.jointPositions = << >>
       /\ store.jointVelocities = << >>
       /\ ~store.isAnimating
       /\ store.computedData = NoComputedData
       /\ store.workspaceData.points = Absent
       /\ store.workspaceData.lastComputed = Absent

RECURSIVE Pow2(_)
Pow2(k) == IF k = 0 THEN 1 ELSE 2 * Pow2(k - 1)

\* C23: the doubling phase makes at most 10 reachability tests, doubles the
\* tested radius after each reachable result and stops at the first
\* unreachable one; when it is left, high is a radius that was tested and
\* found unreachable or, after 10 reachable results, the radius doubled ten
\* times.
ThmC23 ==
    /\ Len(bsTests) <= MaxTests
    /\ \A k \in 1..Len(bsTests) :
          /\ bsTests[k].r = bsRMax * Pow2(k - 1)
          /\ k < Len(bsTests) => bsTests[k].reachable
    /\ bsPc = "double" =>
          /\ \A k \in 1..Len(bsTests) : bsTests[k].reachable
          /\ Len(bsTests) < MaxTests
    /\ bsPc = "bisect" \/ (bsPc = "done" /\ ~bsResult.null) =>
          /\ bsTests # << >>
          /\ IF bsTests[Len(bsTests)].reachable
             THEN Len(bsTests) = MaxTests /\ bsHigh0 = bsRMax * Pow2(MaxTests)
             ELSE bsHigh0 = bsTests[Len(bsTests)].r

WitC23 ==
    /\ bsPc = "bisect"
    /\ Len(bsTests) = MaxTests
    /\ bsTests[MaxTests].reachable

\* C24: the bisection keeps 0 <= low <= high, low being 0 or a radius found
\* reachable and high being lowered only to radii found unreachable; it
\* makes at most 50 iterations, ends with high - low <= epsilon unless the
\* cap was hit, and the point returned is origin + low * direction.
ThmC24 ==
    bsPc = "bisect" \/ (bsPc = "done" /\ ~bsResult.null) =>
       /\ 0 <= bsLow /\ bsLow <= bsHigh
       /\ bsLow = 0 \/ bsLow \in bsReach
       /\ bsHigh = bsHigh0 \/ bsHigh \in bsUnreach
       /\ bsHigh <= bsHigh0
       /\ bsIterations <= MaxBisections
       /\ bsIterations = Cardinality(bsReach) + Cardinality(bsUnreach)
       /\ bsPc = "done" =>
             /\ bsHigh - bsLow <= bsEpsilon \/ bsIterations = MaxBisections
             /\ bsResult = APoint(PointAt(bsOrigin, bsDirection, bsLow))
             /\ bsResult = BinarySearchBoundary(bsRobot, bsOrigin,
                              bsDirection, 0, bsRMax, bsEpsilon, bsMaxIK)

WitC24 ==
    /\ bsPc = "done" /\ ~bsResult.null
    /\ bsReach # {} /\ bsUnreach # {}
    /\ bsLow > 0 /\ bsHigh < bsHigh0

\* the seed vertex that is not a vertex of seed face k
FourthSeedVertex(k) ==
    LET ii == SubSeq(UniqueExtremes(hullPoints), 1, 4)
    IN CHOOSE v \in { ii[j] : j \in 1..4 } : ~HasVertex(hullFaces[k], v)

\* C25: when the tetrahedron has been seeded and oriented, the fourth seed
\* vertex lies on the non-positive side of the plane of each of the four seed
\* faces, the first one included.
CexC25 ==
    (hullPc = "expand" /\ hullIter = 0) =>
        \A k \in 1..4 :
            SignedDistance(hullFaces[k], FourthSeedVertex(k), hullPoints) <= 0

\* the faces, by position, whose outside set holds point index i
HoldersOf(i) ==
    { f \in 1..Len(hullFaces) :
        \E k \in 1..Len(hullFaces[f].points) : hullFaces[f].points[k] = i }

\* the seed vertices and the vertices the expansion loop has added
HullVertices ==
    { UniqueExtremes(hullPoints)[j] : j \in 1..4 } \cup hullAdded

\* C26: throughout quickHull3D, after the initial assignment and after every
\* expansion step, each point index is in the outside set of at most one
\* current face, only of a face it is strictly outside of, and no seed vertex
\* or added hull vertex is in any outside set.
ThmC26 ==
    hullPc = "expand" =>
        \A i \in 0..(Len(hullPoints) - 1) :
            /\ Cardinality(HoldersOf(i)) <= 1
            /\ \A f \in HoldersOf(i) : IsOutside(hullFaces[f], i, hullPoints)
            /\ i \in HullVertices => HoldersOf(i) = {}

\* an expansion step has removed visible faces and moved one of their points
\* to a new face, while another point is outside of two current faces
WitC26 ==
    /\ hullPc = "expand" /\ hullAdded # {}
    /\ \E i \in 0..(Len(hullPoints) - 1) :
          \E f \in HoldersOf(i) : \E v \in hullAdded :
             HasVertex(hullFaces[f], v)
    /\ \E i \in 0..(Len(hullPoints) - 1) :
          /\ HoldersOf(i) # {}
          /\ Cardinality({ f \in 1..Len(hullFaces) :
                             IsOutside(hullFaces[f], i, hullPoints) }) >= 2

\* C27: a call of the wrapper made by throttleAsync less than wait after the
\* last start of func does not start func again, whether that invocation is
\* still pending or has settled, and is handed the promise of the invocation
\* that opened the window.
CexC27 ==
    (taLast.some /\ taLast.window.some
        /\ taLast.at - taLast.window.at < taWait) =>
            /\ ~taLast.started
            /\ taLast.returned = taLast.window.promise

\* C28: every promise the wrapper made by debounceAsync has returned
\* eventually settles, also when calls were made while the timer of an
\* earlier call was pending; after that a later call starts a fresh cycle
\* with a new promise.
CexC28 ==
    /\ \A id \in 1..MaxStarts :
          (id \in daUnsettled) ~> (id \notin daUnsettled)
    /\ [][daPromise.null /\ daCalls' # daCalls
              => ~daPromise'.null /\ daPromise' # daLast.returned]_vars

\* C29: for a Cache constructed with maxSize >= 1, after any sequence of set,
\* get, delete, clear and getOrSet calls, getOrSet calls that overlap
\* included, size() is at most maxSize.
ThmC29 == cacheMaxSize >= 1 => CacheSize(cache) <= cacheMaxSize

\* a full Cache of more than one entry has had a key set while two getOrSet
\* calls are waiting for their computeFn
WitC29 ==
    /\ cacheMaxSize >= 2
    /\ CacheSize(cache) = cacheMaxSize
    /\ Cardinality(cachePending) >= 2
    /\ \E k \in CacheKeys : cacheWritten[k].set /\ k \notin cachePending

\* C30: in useAnimation at most one animation frame is pending, whatever the
\* order of startAnimation, stopAnimation, pauseAnimation, unmount and frame
\* callbacks; after stopAnimation, pauseAnimation or unmount no frame is
\* pending and setJointPositions is not called by the loop until
\* startAnimation is called again.
ThmC30 ==
    /\ Cardinality(anPending) <= 1
    /\ anPending \subseteq { anRef }
    /\ anHalted => anPending = {} /\ ~anSetSince

\* an animation ran frames over some time, was started again while a frame
\* was pending, and was then paused or unmounted
WitC30 ==
    /\ anHalted /\ anRestarted
    /\ anHandles >= 4
    /\ anTime > 0

=============================================================================
